---- MODULE Spec2Model ----
(***************************************************************************)
(* Model of the HLS blackout pipeline of canvas-demo-server: the segment   *)
(* planner, the playlist builder and rewrite, and the create / modify      *)
(* request handlers working on the local directories, the blob store and   *)
(* the lock store.                                                         *)
(*                                                                         *)
(* Text is modelled as a sequence of tokens (each token a TLA+ string), a  *)
(* playlist document as a sequence of lines.  Times are integers counted   *)
(* in half seconds, so that durations with a fractional part exist.        *)
(***************************************************************************)
EXTENDS Integers, Sequences, FiniteSets, TLC

VARIABLES
    planIn,     \* planner run: [totalDuration, blackoutSegments] as received
    planOut,    \* planner run: [allSegments, normal, blackout] once computed
    planPc,     \* planner run: "input" | "planned" | "generated" | "built" | "off"
    rwIn,       \* rewrite run: [content, fileUrlMapping] as given
    rwOut,      \* rewrite run: the results of the passes made so far
    rwPc,       \* rewrite run: "run" | "off"
    jobs,       \* server: per handler slot, the request being served (see IdleJob)
    outputDir,  \* server: hls_output, file name -> content
    tmpDir,     \* server: tmp, the set of source videos held
    store,      \* blob store: object key -> content
    locks,      \* lock store: the sequence of Lock documents
    nextReq,    \* server: number of the next request
    s3Location  \* blob store: whether an upload result carries a Location

planVars == <<planIn, planOut, planPc>>
rwVars == <<rwIn, rwOut, rwPc>>
jobVars == <<jobs, outputDir, tmpDir, store, locks, nextReq, s3Location>>
vars == <<planVars, rwVars, jobVars>>

----------------------------------------------------------------------------
(* Bounds of the model.                                                    *)

\* Largest source duration and interval bound tried, in half seconds.
MaxDuration == 5
\* Longest list of blackout intervals handed to the planner.
MaxIntervals == 2
\* Longest document handed to a rewrite run, in lines.
MaxDocLines == 2
\* Number of requests the server receives in a run.
MaxRequests == 2

----------------------------------------------------------------------------
(* Text helpers.                                                           *)

Digits == <<"0", "1", "2", "3", "4", "5", "6", "7", "8", "9">>

RECURSIVE DecStr(_)
\* String(n) for a natural number n: its decimal digits.
DecStr(n) ==
    IF n < 10 THEN <<Digits[n + 1]>>
    ELSE DecStr(n \div 10) \o <<Digits[(n % 10) + 1]>>

RECURSIVE padStart(_, _, _)
\* str.padStart(len, fill), fill a single character.
padStart(str, len, fill) ==
    IF Len(str) >= len THEN str ELSE padStart(<<fill>> \o str, len, fill)

\* (ticks / 2).toFixed(6) for a duration given in half seconds.
toFixed6(ticks) ==
    LET mag  == IF ticks < 0 THEN 0 - ticks ELSE ticks
        sign == IF ticks < 0 THEN <<"-">> ELSE <<>>
        frac == IF mag % 2 = 0 THEN "000000" ELSE "500000"
    IN  sign \o DecStr(mag \div 2) \o <<".", frac>>

\* String(Math.ceil(ticks / 2)).
CeilSecondsStr(ticks) ==
    LET c == (ticks + 1) \div 2
    IN  IF c < 0 THEN <<"-">> \o DecStr(0 - c) ELSE DecStr(c)

IsSpace(tok) == tok \in {" ", "\t", "\r"}

RECURSIVE trimStart(_)
trimStart(s) ==
    IF s # <<>> /\ IsSpace(Head(s)) THEN trimStart(Tail(s)) ELSE s

RECURSIVE trimEnd(_)
trimEnd(s) ==
    IF s # <<>> /\ IsSpace(s[Len(s)]) THEN trimEnd(SubSeq(s, 1, Len(s) - 1)) ELSE s

\* line.trim()
trim(s) == trimEnd(trimStart(s))

\* str.endsWith('.ts'); '.ts' is always tokenised as the single token ".ts".
endsWithTs(s) == s # <<>> /\ s[Len(s)] = ".ts"

\* str.endsWith('.m3u8')
endsWithM3u8(s) == s # <<>> /\ s[Len(s)] = ".m3u8"

\* str.startsWith(p)
startsWith(s, p) == Len(p) <= Len(s) /\ SubSeq(s, 1, Len(p)) = p

----------------------------------------------------------------------------
(* SegmentPlanner.                                                         *)

\* blackoutSegments.map(seg => ({start: Number(seg.startTime), end: Number(seg.endTime)}))
convertBlackoutSegments(blackoutSegments) ==
    [i \in 1..Len(blackoutSegments) |->
        [start |-> blackoutSegments[i].startTime,
         end   |-> blackoutSegments[i].endTime]]

RECURSIVE InsertByStart(_, _)
\* x put behind every element whose start is not larger (a stable insertion).
InsertByStart(sorted, x) ==
    IF sorted = <<>> THEN <<x>>
    ELSE IF x.start - Head(sorted).start < 0 THEN <<x>> \o sorted
    ELSE <<Head(sorted)>> \o InsertByStart(Tail(sorted), x)

RECURSIVE SortByStart(_)
\* customSegments.sort((a, b) => a.start - b.start): ascending by start, stable.
SortByStart(segs) ==
    IF segs = <<>> THEN <<>>
    ELSE InsertByStart(SortByStart(SubSeq(segs, 1, Len(segs) - 1)), segs[Len(segs)])

RECURSIVE BuildLoop(_, _, _, _)
\* The for-loop of buildSegments from element i on; yields [segs, currentTime].
BuildLoop(customSegments, i, currentTime, allSegments) ==
    IF i > Len(customSegments) THEN [segs |-> allSegments, currentTime |-> currentTime]
    ELSE
        LET customSeg == customSegments[i]
            withGap   ==
                IF customSeg.start > currentTime
                THEN Append(allSegments,
                        [start |-> currentTime, end |-> customSeg.start, isBlackout |-> FALSE])
                ELSE allSegments
            withSeg   ==
                Append(withGap,
                    [start |-> customSeg.start, end |-> customSeg.end, isBlackout |-> TRUE])
        IN  BuildLoop(customSegments, i + 1, customSeg.end, withSeg)

\* buildSegments without the sort of the intervals.
buildSegments_NoSort(totalDuration, customSegments) ==
    LET loop == BuildLoop(customSegments, 1, 0, <<>>)
    IN  IF loop.currentTime < totalDuration
        THEN Append(loop.segs,
                [start |-> loop.currentTime, end |-> totalDuration, isBlackout |-> FALSE])
        ELSE loop.segs

\* buildSegments with the trailing test written <= instead of <.
buildSegments_TrailingLeq(totalDuration, customSegments) ==
    LET loop == BuildLoop(SortByStart(customSegments), 1, 0, <<>>)
    IN  IF loop.currentTime <= totalDuration
        THEN Append(loop.segs,
                [start |-> loop.currentTime, end |-> totalDuration, isBlackout |-> FALSE])
        ELSE loop.segs

\* buildSegments on intervals cut off at the end of the source.
buildSegments_Clamped(totalDuration, customSegments) ==
    LET clamped == [i \in 1..Len(customSegments) |->
                        [start |-> customSegments[i].start,
                         end |-> IF customSegments[i].end > totalDuration
                                 THEN totalDuration ELSE customSegments[i].end]]
        loop == BuildLoop(SortByStart(clamped), 1, 0, <<>>)
    IN  IF loop.currentTime < totalDuration
        THEN Append(loop.segs,
                [start |-> loop.currentTime, end |-> totalDuration, isBlackout |-> FALSE])
        ELSE loop.segs

RECURSIVE BuildLoop_GapGeq(_, _, _, _)
\* The for-loop with the gap test written >= instead of >.
BuildLoop_GapGeq(customSegments, i, currentTime, allSegments) ==
    IF i > Len(customSegments) THEN [segs |-> allSegments, currentTime |-> currentTime]
    ELSE
        LET customSeg == customSegments[i]
            withGap   ==
                IF customSeg.start >= currentTime
                THEN Append(allSegments,
                        [start |-> currentTime, end |-> customSeg.start, isBlackout |-> FALSE])
                ELSE allSegments
            withSeg   ==
                Append(withGap,
                    [start |-> customSeg.start, end |-> customSeg.end, isBlackout |-> TRUE])
        IN  BuildLoop_GapGeq(customSegments, i + 1, customSeg.end, withSeg)

\* buildSegments with a filler pushed in front of every interval that starts at or
\* after the current time.
buildSegments_GapGeq(totalDuration, customSegments) ==
    LET loop == BuildLoop_GapGeq(SortByStart(customSegments), 1, 0, <<>>)
    IN  IF loop.currentTime < totalDuration
        THEN Append(loop.segs,
                [start |-> loop.currentTime, end |-> totalDuration, isBlackout |-> FALSE])
        ELSE loop.segs

\* buildSegments without the segment from the last interval to the end of the source.
buildSegments_NoTrailing(totalDuration, customSegments) ==
    BuildLoop(SortByStart(customSegments), 1, 0, <<>>).segs

\* buildSegments(totalDuration, customSegments) -> allSegments
buildSegments(totalDuration, customSegments) ==
    LET loop == BuildLoop(SortByStart(customSegments), 1, 0, <<>>)
    IN  IF loop.currentTime < totalDuration
        THEN Append(loop.segs,
                [start |-> loop.currentTime, end |-> totalDuration, isBlackout |-> FALSE])
        ELSE loop.segs

----------------------------------------------------------------------------
(* PlaylistBuilder.                                                        *)

\* `segment_${String(index).padStart(3, '0')}.ts`
SegmentName(index) == <<"segment_">> \o padStart(DecStr(index), 3, "0") \o <<".ts">>

\* `blackout_${String(index).padStart(3, '0')}.ts`
BlackoutName(index) == <<"blackout_">> \o padStart(DecStr(index), 3, "0") \o <<".ts">>

NormalPlaylistName == <<"output", ".m3u8">>
BlackoutPlaylistName == <<"blackout", ".m3u8">>

\* extractRegularSegments: the chunk file written for each index of the timeline.
extractRegularSegments(segments) ==
    [i \in 1..Len(segments) |-> SegmentName(i - 1)]

RECURSIVE generateBlackoutSegments(_, _)
\* generateBlackoutSegments from one-based position i on: a filler chunk for each
\* segment that is a blackout.
generateBlackoutSegments(segments, i) ==
    IF i > Len(segments) THEN <<>>
    ELSE (IF segments[i].isBlackout THEN <<BlackoutName(i - 1)>> ELSE <<>>)
         \o generateBlackoutSegments(segments, i + 1)

RECURSIVE MaxOf(_, _)
\* Math.max(...xs) from element i on, given the maximum so far; the maximum of
\* nothing is -Infinity, written here as the empty sequence.
MaxOf(xs, i) ==
    IF i > Len(xs) THEN <<>>
    ELSE LET rest == MaxOf(xs, i + 1)
         IN  IF rest = <<>> \/ xs[i] >= rest[1] THEN <<xs[i]>> ELSE rest

\* The target duration rounded down instead of up.
TargetDuration_Floor(segments) ==
    LET m == MaxOf([i \in 1..Len(segments) |-> segments[i].end - segments[i].start], 1)
    IN  IF m = <<>> THEN <<"-Infinity">> ELSE DecStr(m[1] \div 2)

\* String(Math.ceil(Math.max(...segments.map(s => s.end - s.start))))
TargetDuration(segments) ==
    LET m == MaxOf([i \in 1..Len(segments) |-> segments[i].end - segments[i].start], 1)
    IN  IF m = <<>> THEN <<"-Infinity">> ELSE CeilSecondsStr(m[1])

PlaylistHeader(segments) ==
    << <<"#EXTM3U">>,
       <<"#EXT-X-VERSION:3">>,
       <<"#EXT-X-TARGETDURATION:">> \o TargetDuration(segments),
       <<"#EXT-X-MEDIA-SEQUENCE:0">>,
       <<"#EXT-X-PLAYLIST-TYPE:VOD">> >>

\* The chunk reference with the playlist type ignored.
ChunkReference_AnyType(segment, index, playlistType) ==
    IF segment.isBlackout THEN BlackoutName(index) ELSE SegmentName(index)

\* The chunk reference pushed for the segment at zero-based `index`.
ChunkReference(segment, index, playlistType) ==
    IF playlistType = "blackout" /\ segment.isBlackout
    THEN BlackoutName(index)
    ELSE SegmentName(index)

RECURSIVE PlaylistBody(_, _, _)
\* segments.forEach((segment, index) => ...) from one-based position i on.
PlaylistBody(segments, i, playlistType) ==
    IF i > Len(segments) THEN <<>>
    ELSE << <<"#EXTINF:">> \o toFixed6(segments[i].end - segments[i].start) \o <<",">>,
            ChunkReference(segments[i], i - 1, playlistType) >>
         \o PlaylistBody(segments, i + 1, playlistType)

\* A redacted playlist left open at the end, as a live playlist is.
createPlaylist_OpenBlackout(segments, playlistType) ==
    PlaylistHeader(segments)
        \o PlaylistBody(segments, 1, playlistType)
        \o (IF playlistType = "blackout" THEN <<>> ELSE << <<"#EXT-X-ENDLIST">> >>)

\* createPlaylist(segments, playlistType): the lines written to the playlist file.
createPlaylist(segments, playlistType) ==
    PlaylistHeader(segments)
        \o PlaylistBody(segments, 1, playlistType)
        \o << <<"#EXT-X-ENDLIST">> >>

----------------------------------------------------------------------------
(* Publisher: object URLs, and the rewrite of a playlist.                  *)

\* The Location the store reports for an uploaded object, when it reports one.
S3Location(bucketName, region, key) ==
    <<"https://", bucketName, ".s3.", region, ".amazonaws.com", "/">> \o key

\* uploadToS3: result.Location || `https://${bucketName}.s3.amazonaws.com/${key}`;
\* `location` is the empty string when the store reported none.
uploadToS3(bucketName, key, location) ==
    IF location # <<>> THEN location
    ELSE <<"https://", bucketName, ".s3.amazonaws.com", "/">> \o key

\* fileUrlMapping[trimmed], as a truth value.
HasUrl(fileUrlMapping, name) ==
    name \in DOMAIN fileUrlMapping /\ fileUrlMapping[name] # <<>>

\* The rewrite of a line done by prefixing the first URL's folder instead of by
\* looking the name up.
RewriteLine_Prefixing(line, fileUrlMapping) ==
    LET trimmed == trim(line)
    IN  IF endsWithTs(trimmed) /\ DOMAIN fileUrlMapping # {}
        THEN LET k == CHOOSE f \in DOMAIN fileUrlMapping : TRUE
                 u == fileUrlMapping[k]
             IN  SubSeq(u, 1, Len(u) - Len(k)) \o trimmed
        ELSE line

\* The callback of lines.map in updatePlaylistContent.
RewriteLine(line, fileUrlMapping) ==
    LET trimmed == trim(line)
    IN  IF endsWithTs(trimmed) /\ HasUrl(fileUrlMapping, trimmed)
        THEN fileUrlMapping[trimmed]
        ELSE line

\* updatePlaylistContent, on the lines of the playlist read from playlistPath.
updatePlaylistContent(content, fileUrlMapping) ==
    [i \in 1..Len(content) |-> RewriteLine(content[i], fileUrlMapping)]

\* `https://${awsBucketName}.s3.${awsRegion}.amazonaws.com/${folderPrefix}`
S3UrlPrefix(bucketName, region, folderPrefix) ==
    <<"https://", bucketName, ".s3.", region, ".amazonaws.com", "/">> \o folderPrefix

\* The callback of lines.map in download-video: a line that starts with the prefix
\* loses it.
StripLine(line, s3UrlPrefix) ==
    IF startsWith(line, s3UrlPrefix)
    THEN SubSeq(line, Len(s3UrlPrefix) + 1, Len(line))
    ELSE line

\* The rewrite download-video does on a fetched .m3u8 file.
stripS3UrlPrefix(content, s3UrlPrefix) ==
    [i \in 1..Len(content) |-> StripLine(content[i], s3UrlPrefix)]

----------------------------------------------------------------------------
(* A planner run: inputs drawn from the bounded sets, then the planner and *)
(* the playlist builder applied.                                           *)

Times == 0..MaxDuration

RawInterval == [startTime : Times, endTime : Times]

RECURSIVE SeqsUpTo(_, _)
SeqsUpTo(S, n) ==
    IF n = 0 THEN {<<>>}
    ELSE LET shorter == SeqsUpTo(S, n - 1)
         IN  shorter \cup {Append(s, x) : s \in {t \in shorter : Len(t) = n - 1}, x \in S}

\* The parts of the state a run does not use.
PlanOff == planIn = <<>> /\ planOut = <<>> /\ planPc = "off"
RwOff == rwIn = <<>> /\ rwOut = <<>> /\ rwPc = "off"
JobsOff ==
    /\ jobs = <<>> /\ outputDir = <<>> /\ tmpDir = {} /\ store = <<>>
    /\ locks = <<>> /\ nextReq = 0 /\ s3Location = FALSE

PlanInit ==
    /\ planIn \in [totalDuration : 1..MaxDuration,
                   blackoutSegments : SeqsUpTo(RawInterval, MaxIntervals)]
    /\ planOut = [allSegments |-> <<>>, chunks |-> <<>>,
                  normal |-> <<>>, blackout |-> <<>>]
    /\ planPc = "input"
    /\ RwOff /\ JobsOff

\* createM3U8WithExactSegments up to buildSegments.
PlanSegments ==
    /\ planPc = "input"
    /\ planOut' = [planOut EXCEPT !.allSegments =
            buildSegments(planIn.totalDuration,
                          convertBlackoutSegments(planIn.blackoutSegments))]
    /\ planPc' = "planned"
    /\ UNCHANGED <<planIn, rwVars, jobVars>>

\* createM3U8WithExactSegments: the chunk files, in the order they are written.
PlanChunks ==
    /\ planPc = "planned"
    /\ planOut' = [planOut EXCEPT !.chunks =
            extractRegularSegments(planOut.allSegments)
                \o generateBlackoutSegments(planOut.allSegments, 1)]
    /\ planPc' = "generated"
    /\ UNCHANGED <<planIn, rwVars, jobVars>>

\* createM3U8WithExactSegments: the two playlists.
PlanPlaylists ==
    /\ planPc = "generated"
    /\ planOut' = [planOut EXCEPT
            !.normal   = createPlaylist(planOut.allSegments, "normal"),
            !.blackout = createPlaylist(planOut.allSegments, "blackout")]
    /\ planPc' = "built"
    /\ UNCHANGED <<planIn, rwVars, jobVars>>

PlanNext == PlanSegments \/ PlanChunks \/ PlanPlaylists

SpecPlan == PlanInit /\ [][PlanNext]_vars

----------------------------------------------------------------------------
(* Properties of the planner and the playlist builder (SpecPlan).          *)

Intervals == convertBlackoutSegments(planIn.blackoutSegments)

\* 0 <= start < end <= D for every interval, and no two intervals overlap.
ValidIntervals ==
    /\ \A i \in 1..Len(Intervals) :
        /\ 0 <= Intervals[i].start
        /\ Intervals[i].start < Intervals[i].end
        /\ Intervals[i].end <= planIn.totalDuration
    /\ \A i, j \in 1..Len(Intervals) :
        i # j => \/ Intervals[i].end <= Intervals[j].start
                 \/ Intervals[j].end <= Intervals[i].start

Planned == planPc \in {"planned", "generated", "built"}

BlackoutCount(segments) ==
    Cardinality({i \in 1..Len(segments) : segments[i].isBlackout})

DirectiveTokens ==
    {"#EXTM3U", "#EXT-X-VERSION:3", "#EXT-X-TARGETDURATION:",
     "#EXT-X-MEDIA-SEQUENCE:0", "#EXT-X-PLAYLIST-TYPE:VOD", "#EXTINF:",
     "#EXT-X-ENDLIST"}

IsDirective(line) == line # <<>> /\ Head(line) \in DirectiveTokens

\* The lines of a playlist that are not directives, in order.
ReferenceLines(doc) == SelectSeq(doc, LAMBDA line : ~IsDirective(line))

\* C1: for D > 0 and pairwise-disjoint intervals inside [0, D], in any order, the
\* planned timeline starts at 0, ends at D, each segment starts where the previous
\* one ended, and it has as many blackout segments as there are intervals.
C1_TimelineCoversDuration ==
    (Planned /\ ValidIntervals) =>
        LET segs == planOut.allSegments
        IN  /\ Len(segs) >= 1
            /\ segs[1].start = 0
            /\ segs[Len(segs)].end = planIn.totalDuration
            /\ \A i \in 2..Len(segs) : segs[i].start = segs[i - 1].end
            /\ BlackoutCount(segs) = Len(Intervals)

\* Two valid intervals given latest first, planned into a gap, a blackout, a gap
\* and a blackout (at least).
C1_Witness ==
    /\ Planned /\ ValidIntervals
    /\ Len(Intervals) = 2
    /\ Intervals[1].start > Intervals[2].start
    /\ Len(planOut.allSegments) >= 4

\* C2: the normal playlist references segment_i at every index i; the redacted
\* playlist references blackout_i exactly at the indices whose segment is a
\* blackout and segment_i elsewhere.  Scaled example: D = 5 with intervals (1,2)
\* and (3,4) gives segment_000..004 and segment_000, blackout_001, segment_002,
\* blackout_003, segment_004.
C2_PlaylistReferences ==
    planPc = "built" =>
        LET segs == planOut.allSegments
            nrm  == ReferenceLines(planOut.normal)
            red  == ReferenceLines(planOut.blackout)
        IN  /\ Len(nrm) = Len(segs)
            /\ Len(red) = Len(segs)
            /\ \A i \in 1..Len(segs) :
                /\ nrm[i] = <<"segment_">> \o padStart(DecStr(i - 1), 3, "0") \o <<".ts">>
                /\ segs[i].isBlackout
                    => red[i] = <<"blackout_">> \o padStart(DecStr(i - 1), 3, "0") \o <<".ts">>
                /\ ~segs[i].isBlackout => red[i] = nrm[i]
            /\ ( /\ planIn.totalDuration = 5
                 /\ planIn.blackoutSegments =
                        << [startTime |-> 1, endTime |-> 2], [startTime |-> 3, endTime |-> 4] >> )
               => /\ nrm = << <<"segment_", "0", "0", "0", ".ts">>,
                              <<"segment_", "0", "0", "1", ".ts">>,
                              <<"segment_", "0", "0", "2", ".ts">>,
                              <<"segment_", "0", "0", "3", ".ts">>,
                              <<"segment_", "0", "0", "4", ".ts">> >>
                  /\ red = << <<"segment_", "0", "0", "0", ".ts">>,
                              <<"blackout_", "0", "0", "1", ".ts">>,
                              <<"segment_", "0", "0", "2", ".ts">>,
                              <<"blackout_", "0", "0", "3", ".ts">>,
                              <<"segment_", "0", "0", "4", ".ts">> >>

\* The scaled example, with its playlists built.
C2_Witness ==
    /\ planPc = "built"
    /\ planIn.totalDuration = 5
    /\ planIn.blackoutSegments =
            << [startTime |-> 1, endTime |-> 2], [startTime |-> 3, endTime |-> 4] >>
    /\ Len(planOut.allSegments) = 5
    /\ ReferenceLines(planOut.blackout)[2] = <<"blackout_", "0", "0", "1", ".ts">>

\* C3: with no interval the timeline is the single non-blackout segment (0, D) and
\* both playlists reference segment_000 only; with the single interval (0, D) the
\* timeline is one blackout segment, the normal playlist references segment_000 and
\* the redacted playlist blackout_000.
C3_PlannerEdgeCases ==
    LET D == planIn.totalDuration
    IN  /\ (Planned /\ Intervals = <<>>) =>
                planOut.allSegments = << [start |-> 0, end |-> D, isBlackout |-> FALSE] >>
        /\ (planPc = "built" /\ Intervals = <<>>) =>
                /\ ReferenceLines(planOut.normal) = << <<"segment_", "0", "0", "0", ".ts">> >>
                /\ ReferenceLines(planOut.blackout) = << <<"segment_", "0", "0", "0", ".ts">> >>
        /\ (Planned /\ Intervals = << [start |-> 0, end |-> D] >>) =>
                planOut.allSegments = << [start |-> 0, end |-> D, isBlackout |-> TRUE] >>
        /\ (planPc = "built" /\ Intervals = << [start |-> 0, end |-> D] >>) =>
                /\ ReferenceLines(planOut.normal) = << <<"segment_", "0", "0", "0", ".ts">> >>
                /\ ReferenceLines(planOut.blackout) = << <<"blackout_", "0", "0", "0", ".ts">> >>

\* The whole-duration interval, planned and built into a one-line redacted playlist.
C3_Witness ==
    /\ planPc = "built"
    /\ Intervals = << [start |-> 0, end |-> planIn.totalDuration] >>
    /\ Len(planOut.allSegments) = 1
    /\ ReferenceLines(planOut.blackout) = << <<"blackout_", "0", "0", "0", ".ts">> >>

\* The empty interval list, planned and built.
C3_WitnessEmpty ==
    /\ planPc = "built"
    /\ Intervals = <<>>
    /\ Len(planOut.allSegments) = 1

------------------------------------------------------------\* The least whole number of seconds that is not below any segment's length
\* (lengths are in half seconds).
CeilOfLongest(segments) ==
    CHOOSE c \in (0 - MaxDuration)..MaxDuration :
        /\ \A i \in 1..Len(segments) : segments[i].end - segments[i].start <= 2 * c
        /\ \E i \in 1..Len(segments) : segments[i].end - segments[i].start > 2 * (c - 1)

\* C12: for every non-empty timeline the TARGETDURATION header of both playlists
\* is the ceiling of the longest segment length (end - start) of the timeline.
C12_TargetDurationIsCeilOfMax ==
    (planPc = "built" /\ Len(planOut.allSegments) > 0) =>
        \A playlist \in {planOut.normal, planOut.blackout} :
            playlist[3] = <<"#EXT-X-TARGETDURATION:">>
                            \o DecStr(CeilOfLongest(planOut.allSegments))

\* Both playlists built for a timeline whose longest segment is not the first one
\* and has a length that is not a whole number of seconds.
C12_Witness ==
    /\ planPc = "built"
    /\ Len(planOut.allSegments) = 3
    /\ planOut.allSegments[1].end - planOut.allSegments[1].start = 1
    /\ planOut.allSegments[3].end - planOut.allSegments[3].start = 3
    /\ planOut.blackout[3] = <<"#EXT-X-TARGETDURATION:", "2">>

\* C13: the generator writes exactly one chunk per index of the timeline:
\* segment_i for a segment that is not a blackout, blackout_i for a blackout, never
\* both for one index, so there are as many chunks as segments.
C13_OneChunkPerIndex ==
    planPc \in {"generated", "built"} =>
        LET segments == planOut.allSegments
            written  == {planOut.chunks[k] : k \in 1..Len(planOut.chunks)}
        IN  /\ Len(planOut.chunks) = Len(segments)
            /\ \A i \in 1..Len(segments) :
                /\ SegmentName(i - 1) \in written <=> ~segments[i].isBlackout
                /\ BlackoutName(i - 1) \in written <=> segments[i].isBlackout

----------------
(* A rewrite run: a document and a publish map drawn from bounded sets,    *)
(* then updatePlaylistContent applied, and applied again to its result.    *)

RwBucket == "bkt"
RwRegion == "us-east-1"

\* Remote prefixes: one as create builds it, one as a modify caller may give it.
RwPrefixes == { <<"v", "/", "c", "1", "/">>, <<"c", "1">> }

\* Listings of the output directory at upload time.
RwFileSets ==
    { {},
      {SegmentName(0), NormalPlaylistName, BlackoutPlaylistName},
      {SegmentName(0), SegmentName(1), BlackoutName(1),
       NormalPlaylistName, BlackoutPlaylistName} }

\* The map uploadHlsFilesToS3 returns for a listing: file name -> URL of its key.
PublishMap(files, prefix, withLocation) ==
    [f \in files |->
        uploadToS3(RwBucket, prefix \o f,
            IF withLocation THEN S3Location(RwBucket, RwRegion, prefix \o f) ELSE <<>>)]

RwMaps ==
    {PublishMap(files, prefix, loc) :
        files \in RwFileSets, prefix \in RwPrefixes, loc \in BOOLEAN}

\* Lines a document may hold: directives, a blank line, chunk names (published or
\* not), a chunk name with surrounding whitespace, a playlist name, chunk URLs.
RwLines ==
    { <<>>,
      <<"#EXTM3U">>,
      <<"#EXTINF:">> \o toFixed6(3) \o <<",">>,
      SegmentName(0), SegmentName(1), BlackoutName(1), SegmentName(2),
      <<" ">> \o SegmentName(0) \o <<"\r">>,
      NormalPlaylistName,
      uploadToS3(RwBucket, <<"v", "/", "c", "1", "/">> \o SegmentName(0), <<>>),
      S3Location(RwBucket, RwRegion, <<"c", "1">> \o BlackoutName(1)) }

\* The runs: a document, the map of a publication, and the prefix published under.
RwInputs ==
    {[content |-> content, fileUrlMapping |-> PublishMap(files, prefix, loc),
      folderPrefix |-> prefix] :
        content \in SeqsUpTo(RwLines, MaxDocLines),
        files \in RwFileSets, prefix \in RwPrefixes, loc \in BOOLEAN}

RwInit ==
    /\ rwIn \in RwInputs
    /\ rwOut = <<>>
    /\ rwPc = "run"
    /\ PlanOff /\ JobsOff

\* rewrite(P, M)
RwFirstPass ==
    /\ rwPc = "run" /\ Len(rwOut) = 0
    /\ rwOut' = <<updatePlaylistContent(rwIn.content, rwIn.fileUrlMapping)>>
    /\ UNCHANGED <<rwIn, rwPc, planVars, jobVars>>

\* rewrite(rewrite(P, M), M)
RwSecondPass ==
    /\ rwPc = "run" /\ Len(rwOut) = 1
    /\ rwOut' = Append(rwOut, updatePlaylistContent(rwOut[1], rwIn.fileUrlMapping))
    /\ UNCHANGED <<rwIn, rwPc, planVars, jobVars>>

\* strip(rewrite(P, M)): the published playlist fetched by download-video with the
\* prefix it was published under.
RwFetch ==
    /\ rwPc = "run" /\ Len(rwOut) = 2
    /\ rwOut' = Append(rwOut,
                    stripS3UrlPrefix(rwOut[1],
                                     S3UrlPrefix(RwBucket, RwRegion, rwIn.folderPrefix)))
    /\ UNCHANGED <<rwIn, rwPc, planVars, jobVars>>

RwNext == RwFirstPass \/ RwSecondPass \/ RwFetch

SpecRewrite == RwInit /\ [][RwNext]_vars

\* C10: rewriting a document with a publish map and rewriting the result with the
\* same map gives the result of the first rewrite; no URL of the map is a key of it.
C10_RewriteIdempotent ==
    /\ Len(rwOut) = 2 => rwOut[2] = rwOut[1]
    /\ rwPc = "run" =>
        \A f \in DOMAIN rwIn.fileUrlMapping :
            rwIn.fileUrlMapping[f] \notin DOMAIN rwIn.fileUrlMapping

\* A document whose first pass replaced a chunk name, rewritten a second time.
C10_Witness ==
    /\ Len(rwOut) = 2
    /\ \E i \in 1..Len(rwIn.content) :
        /\ rwOut[1][i] # rwIn.content[i]
        /\ rwOut[2][i] = rwIn.fileUrlMapping[trim(rwIn.content[i])]

----------------------------------------------------------------------------
(* The server of index.js: request handlers over the shared directories,   *)
(* the blob store and the lock store.  A handler runs from one await to    *)
(* the next without interruption; each action below is the completion of   *)
(* the pending await followed by the synchronous code up to the next one.  *)

\* Handler slots: requests served at the same time.
Slots == {1, 2}

Bucket == "bkt"
Region == "us-east-1"

\* awsOriginalKey of the source video; it lies outside every job prefix.
OriginalKey == <<"src", "/", "a", ".mp4">>

\* ffprobe's duration of the source video, in half seconds.
SourceDurations == {2}

\* blackoutLocks / newBlackoutLocks a request may carry.
JobIntervalLists ==
    { <<>>, << [startTime |-> 0, endTime |-> 1] >> }

\* awsDestinationFolder and contentId a create request may carry.
DestinationFolders == { <<"v">> }
ContentIds == { <<"c", "1">> }

\* folder a modify request may carry: the prefix create builds for c1, and another.
ModifyFolders == { <<"v", "/", "c", "1", "/">>, <<"v", "/", "c", "2", "/">> }

NoContent == [by |-> 0, name |-> <<>>, lines |-> <<>>]

IdleJob ==
    [pc |-> "idle", kind |-> "none", at |-> "none", req |-> 0,
     blackoutLocks |-> <<>>, folder |-> <<>>, contentId |-> <<>>,
     lockId |-> <<>>, lockAt |-> 0, lock |-> <<>>, uniqueSubfolder |-> <<>>,
     localMp4Path |-> <<>>, totalDuration |-> 0, files |-> <<>>, idx |-> 0, buf |-> NoContent,
     fileUrlMapping |-> <<>>, listed |-> {},
     updatedNormalPlaylist |-> <<>>, updatedBlackoutPlaylist |-> <<>>,
     normalUrl |-> <<>>, blackoutUrl |-> <<>>]

\* What is left of a request once its handler has returned: the request itself
\* and the names it worked on; the handler's locals are gone.
Returned(job) ==
    [IdleJob EXCEPT !.kind = job.kind, !.req = job.req,
                    !.blackoutLocks = job.blackoutLocks, !.folder = job.folder,
                    !.contentId = job.contentId, !.lockId = job.lockId,
                    !.lockAt = job.lockAt, !.uniqueSubfolder = job.uniqueSubfolder,
                    !.localMp4Path = job.localMp4Path,
                    !.totalDuration = job.totalDuration]

\* A handler that notes the failure and carries on where it was.
Failed_Resuming(job, at) == [job EXCEPT !.at = at]

\* The catch block of a handler: respond 500 (or the 4xx return), nothing else.
Failed(job, at) == [Returned(job) EXCEPT !.pc = "error", !.at = at]

\* The success response of a handler, carrying the two playlist URLs.
Succeeded(job) ==
    [Returned(job) EXCEPT !.pc = "done", !.at = "done",
                          !.normalUrl = job.normalUrl, !.blackoutUrl = job.blackoutUrl]

\* `${Date.now()}-original.mp4`; requests are taken to arrive at distinct times.
LocalMp4Path(req) == DecStr(req) \o <<"-original", ".mp4">>

\* The URL an upload of `key` returns.
UrlOf(key) ==
    uploadToS3(Bucket, key, IF s3Location THEN S3Location(Bucket, Region, key) ELSE <<>>)

(* -------- createM3U8WithExactSegments on the shared output directory ---- *)

SegmentWrites(req, segments) ==
    [i \in 1..Len(segments) |->
        [name |-> SegmentName(i - 1),
         content |-> [by |-> req, name |-> SegmentName(i - 1), lines |-> <<>>]]]

RECURSIVE BlackoutWrites(_, _, _)
BlackoutWrites(req, segments, i) ==
    IF i > Len(segments) THEN <<>>
    ELSE (IF segments[i].isBlackout
          THEN << [name |-> BlackoutName(i - 1),
                   content |-> [by |-> req, name |-> BlackoutName(i - 1), lines |-> <<>>]] >>
          ELSE <<>>)
         \o BlackoutWrites(req, segments, i + 1)

PlaylistWrite(req, segments, playlistType) ==
    LET name == IF playlistType = "normal" THEN NormalPlaylistName ELSE BlackoutPlaylistName
    IN  [name |-> name,
         content |-> [by |-> req, name |-> name,
                      lines |-> createPlaylist(segments, playlistType)]]

\* The files createM3U8WithExactSegments of index.js writes, in its order: every
\* segment_i, output.m3u8, blackout_i for the blackout segments, blackout.m3u8.
GenerationWrites(req, segments) ==
    SegmentWrites(req, segments)
        \o <<PlaylistWrite(req, segments, "normal")>>
        \o BlackoutWrites(req, segments, 1)
        \o <<PlaylistWrite(req, segments, "blackout")>>

RECURSIVE WriteFiles(_, _, _)
\* dir after the first k of the writes (execSync ffmpeg -y, fs.writeFileSync).
WriteFiles(dir, writes, k) ==
    IF k = 0 THEN dir
    ELSE LET before == WriteFiles(dir, writes, k - 1)
         IN  (writes[k].name :> writes[k].content) @@ before

\* The timeline createM3U8WithExactSegments plans for a request.
JobSegments(blackoutLocks, totalDuration) ==
    buildSegments(totalDuration, convertBlackoutSegments(blackoutLocks))

(* -------- uploadHlsFilesToS3 and the rewrite ---------------------------- *)

\* A file of the output directory that no generation writes.
PosterName == <<"poster", ".jpg">>

\* Every file name the output directory can hold, in the order readdirSync
\* lists them.
FileOrder ==
    << BlackoutPlaylistName, BlackoutName(0), BlackoutName(1), BlackoutName(2),
       NormalPlaylistName, PosterName, SegmentName(0), SegmentName(1), SegmentName(2) >>

\* fs.readdirSync(outputDir)
Listing(dir) == SelectSeq(FileOrder, LAMBDA f : f \in DOMAIN dir)

\* After the upload loop: updatePlaylistContent on both playlist paths, then the
\* upload of the rewritten normal playlist is started.
BeginRewrite(job, dir) ==
    IF NormalPlaylistName \notin DOMAIN dir \/ BlackoutPlaylistName \notin DOMAIN dir
    THEN Failed(job, "rewrite")
    ELSE [job EXCEPT
            !.pc = "putNormal",
            !.updatedNormalPlaylist =
                updatePlaylistContent(dir[NormalPlaylistName].lines, job.fileUrlMapping),
            !.updatedBlackoutPlaylist =
                updatePlaylistContent(dir[BlackoutPlaylistName].lines, job.fileUrlMapping)]

\* uploadHlsFilesToS3 up to its first await: the listing is taken once, the first
\* file is read and its upload started.
BeginUpload(job, dir) ==
    LET files == Listing(dir)
        listedJob == [job EXCEPT !.files = files, !.idx = 0, !.fileUrlMapping = <<>>]
    IN  IF files = <<>> THEN BeginRewrite(listedJob, dir)
        ELSE [listedJob EXCEPT !.pc = "put", !.idx = 1, !.buf = dir[files[1]]]

PlaylistMimeType == "application/vnd.apple.mpegurl"
ChunkMimeType == "video/MP2T"
BinaryMimeType == "application/octet-stream"

\* Every upload labelled as a binary object.
ContentTypeOf_AllBinary(file) == BinaryMimeType

\* contentType chosen in uploadHlsFilesToS3 for a file name.
ContentTypeOf(file) ==
    IF endsWithM3u8(file) THEN PlaylistMimeType
    ELSE IF endsWithTs(file) THEN ChunkMimeType
    ELSE BinaryMimeType

\* The store after the Upload of uploadToS3 is done: Key, Body and ContentType.
PutObject(objects, key, fileBuffer, contentType) ==
    (key :> [by |-> fileBuffer.by, name |-> fileBuffer.name, lines |-> fileBuffer.lines,
             contentType |-> contentType])
        @@ objects

\* Keys of the store that start with `prefix` (ListObjectsV2 with Prefix).
ListObjects(objects, prefix) == {k \in DOMAIN objects : startsWith(k, prefix)}

\* The store without the given keys (DeleteObjects).
DeleteObjects(objects, keys) == [k \in DOMAIN objects \ keys |-> objects[k]]

(* -------- Lock documents ------------------------------------------------ *)

\* (blackoutLocks || []).map(lock => ({ bl_id: uuidv4(), startTime, endTime }))
BlackoutLockEntries(req, blackoutLocks) ==
    [i \in 1..Len(blackoutLocks) |->
        [bl_id |-> <<"bl">> \o DecStr(req) \o <<"-">> \o DecStr(i),
         startTime |-> blackoutLocks[i].startTime,
         endTime |-> blackoutLocks[i].endTime]]

\* A Lock document whose redacted locator is the locator of the source.
NewLock_SourceLocator(oid, req, contentId, blackoutUrl, blackoutLocks) ==
    LET originalUrl == S3Location(Bucket, Region, OriginalKey)
    IN  [_id |-> <<"oid">> \o DecStr(oid),
         OriginalContentUrl |-> originalUrl,
         LockedContentUrl |-> originalUrl,
         LockJsonObject |->
            [lockId |-> <<"uuid">> \o DecStr(req),
             originalcontentUrl |-> originalUrl,
             contentId |-> contentId,
             lockedcontenturl |-> originalUrl,
             blackoutLocks |-> BlackoutLockEntries(req, blackoutLocks)]]

\* The Lock document create-AES saves.
NewLock(oid, req, contentId, blackoutUrl, blackoutLocks) ==
    LET originalUrl == S3Location(Bucket, Region, OriginalKey)
    IN  [_id |-> <<"oid">> \o DecStr(oid),
         OriginalContentUrl |-> originalUrl,
         LockedContentUrl |-> blackoutUrl,
         LockJsonObject |->
            [lockId |-> <<"uuid">> \o DecStr(req),
             originalcontentUrl |-> originalUrl,
             contentId |-> contentId,
             lockedcontenturl |-> blackoutUrl,
             blackoutLocks |-> BlackoutLockEntries(req, blackoutLocks)]]

\* Whether the value can be cast to the ObjectId type of _id; findOne throws a
\* cast error for one that cannot.
IsObjectId(lockId) == lockId # <<>> /\ lockId[1] = "oid"

\* Lock.findOne({ _id: lockId }): positions of the matching documents.
FindById(docs, lockId) == {i \in 1..Len(docs) : docs[i]._id = lockId}

\* The document with the two fields modify-AES assigns before lock.save().
ModifiedLock(doc, req, blackoutUrl, newBlackoutLocks) ==
    [doc EXCEPT
        !.LockJsonObject.blackoutLocks = BlackoutLockEntries(req, newBlackoutLocks),
        !.LockJsonObject.lockedcontenturl = blackoutUrl]

\* The lock store after lock.save() of modify-AES returned (ok) or threw.
LocksAfterSave_Always(docs, i, doc, ok) == [docs EXCEPT ![i] = doc]

LocksAfterSave(docs, i, doc, ok) ==
    IF ok THEN [docs EXCEPT ![i] = doc] ELSE docs

RECURSIVE IndexOfHost(_, _)
\* First position i with url[i], url[i+1] = '.amazonaws.com', '/'; 0 when none.
IndexOfHost(url, i) ==
    IF i + 1 > Len(url) THEN 0
    ELSE IF url[i] = ".amazonaws.com" /\ url[i + 1] = "/" THEN i
    ELSE IndexOfHost(url, i + 1)

\* originalUrl.split('.amazonaws.com/'): the parts (the first two are all the
\* handler reads).
SplitAtHost(url) ==
    LET i == IndexOfHost(url, 1)
    IN  IF i = 0 THEN <<url>>
        ELSE LET rest == SubSeq(url, i + 2, Len(url))
                 n == IndexOfHost(rest, 1)
             IN  <<SubSeq(url, 1, i - 1),
                   IF n = 0 THEN rest ELSE SubSeq(rest, 1, n - 1)>>

\* baseFolder + contentId + '/' of create-AES.
CreateSubfolder(awsDestinationFolder, contentId) ==
    LET baseFolder ==
            IF awsDestinationFolder # <<>> /\ awsDestinationFolder[Len(awsDestinationFolder)] = "/"
            THEN awsDestinationFolder
            ELSE awsDestinationFolder \o <<"/">>
    IN  baseFolder \o contentId \o <<"/">>

(* -------- what an earlier, completed create-AES request left behind ------ *)

RECURSIVE PutAll(_, _, _, _)
\* The store after the files of the listing, from position i on, were uploaded
\* under the prefix.
PutAll(objects, prefix, dir, i) ==
    LET files == Listing(dir)
    IN  IF i > Len(files) THEN objects
        ELSE PutAll(PutObject(objects, prefix \o files[i], dir[files[i]],
                              ContentTypeOf(files[i])),
                    prefix, dir, i + 1)

\* The objects a create-AES request that ran alone and succeeded has published.
Published(req, prefix, blackoutLocks, totalDuration) ==
    LET writes == GenerationWrites(req, JobSegments(blackoutLocks, totalDuration))
        dir == WriteFiles(<<>>, writes, Len(writes))
        mapping == [f \in DOMAIN dir |-> UrlOf(prefix \o f)]
        rewritten(name) ==
            [by |-> req, name |-> name, lines |-> updatePlaylistContent(dir[name].lines, mapping)]
    IN  PutObject(
            PutObject(PutAll(<<>>, prefix, dir, 1),
                      prefix \o NormalPlaylistName, rewritten(NormalPlaylistName),
                      PlaylistMimeType),
            prefix \o BlackoutPlaylistName, rewritten(BlackoutPlaylistName),
            PlaylistMimeType)

\* The request served before the run starts, when there was one: request 0, a
\* create-AES of content c1 under v with one blackout interval.
EarlierFolder == <<"v">>
EarlierContentId == <<"c", "1">>
EarlierBlackoutLocks == << [startTime |-> 0, endTime |-> 1] >>

(* -------- actions -------------------------------------------------------- *)

\* The server has just started: no request is being served and both directories
\* are empty.  The blob store and the lock store outlive the server: they are
\* empty, or hold what one earlier create-AES request published and saved.
JobInit ==
    /\ jobs = [j \in Slots |-> IdleJob]
    /\ outputDir = <<>>
    /\ tmpDir = {}
    /\ nextReq = 1
    /\ s3Location \in BOOLEAN
    /\ \E earlier \in BOOLEAN, totalDuration \in SourceDurations :
        LET prefix == CreateSubfolder(EarlierFolder, EarlierContentId)
        IN  /\ store = IF earlier
                       THEN Published(0, prefix, EarlierBlackoutLocks, totalDuration)
                       ELSE <<>>
            /\ locks = IF earlier
                       THEN << NewLock(1, 0, EarlierContentId,
                                       UrlOf(prefix \o BlackoutPlaylistName),
                                       EarlierBlackoutLocks) >>
                       ELSE <<>>
    /\ PlanOff /\ RwOff

Free(j) == jobs[j].pc \in {"idle", "done", "error"}

\* A request is taken by the first slot that is free (the slots are alike).
Takes(j) == Free(j) /\ \A i \in Slots : i < j => ~Free(i)

\* POST /create-AES arrives with a valid body; GetObject of the source is awaited.
StartCreate(j) ==
    /\ Takes(j) /\ nextReq <= MaxRequests
    /\ \E folder \in DestinationFolders, contentId \in ContentIds,
          blackoutLocks \in JobIntervalLists :
        jobs' = [jobs EXCEPT ![j] =
            [IdleJob EXCEPT !.pc = "get", !.kind = "create", !.req = nextReq,
                            !.folder = folder, !.contentId = contentId,
                            !.blackoutLocks = blackoutLocks]]
    /\ nextReq' = nextReq + 1
    /\ UNCHANGED <<outputDir, tmpDir, store, locks, s3Location, planVars, rwVars>>

\* Lock ids of no document: one of the form of an _id, one of the form of a lock_id.
UnknownLockIds == { <<"oid", "0">>, <<"uuid", "x">> }

\* The lock_id values create-AES has returned for the documents of the store.
ReturnedLockIds(docs) == {docs[i].LockJsonObject.lockId : i \in 1..Len(docs)}

\* POST /modify-AES arrives with a valid body; Lock.findOne is awaited.
StartModify(j) ==
    /\ Takes(j) /\ nextReq <= MaxRequests
    /\ \E lockId \in {locks[i]._id : i \in 1..Len(locks)}
                        \cup ReturnedLockIds(locks) \cup UnknownLockIds,
          folder \in ModifyFolders, newBlackoutLocks \in JobIntervalLists :
        jobs' = [jobs EXCEPT ![j] =
            [IdleJob EXCEPT !.pc = "find", !.kind = "modify", !.req = nextReq,
                            !.lockId = lockId, !.folder = folder,
                            !.blackoutLocks = newBlackoutLocks]]
    /\ nextReq' = nextReq + 1
    /\ UNCHANGED <<outputDir, tmpDir, store, locks, s3Location, planVars, rwVars>>

\* A modify that empties its folder as soon as it has looked the document up.
FindDone_Clearing(j) ==
    /\ jobs[j].pc = "find"
    /\ \E ok \in BOOLEAN :
        LET job == jobs[j]
            found == FindById(locks, job.lockId)
        IN  jobs' = [jobs EXCEPT ![j] =
                IF ~ok THEN Failed(job, "find")
                ELSE IF ~IsObjectId(job.lockId) THEN Failed(job, "cast")
                ELSE IF found = {} THEN Failed(job, "notFound")
                ELSE LET i == CHOOSE m \in found : \A n \in found : m <= n
                     IN  IF Len(SplitAtHost(locks[i].LockJsonObject.originalcontentUrl)) < 2
                         THEN Failed(job, "find")
                         ELSE [job EXCEPT !.pc = "get", !.lockAt = i, !.lock = locks[i]]]
    /\ store' = DeleteObjects(store, ListObjects(store, jobs[j].folder))
    /\ UNCHANGED <<outputDir, tmpDir, locks, nextReq, s3Location, planVars, rwVars>>

\* Lock.findOne returned or threw; on a document, GetObject of the source is awaited.
FindDone(j) ==
    /\ jobs[j].pc = "find"
    /\ \E ok \in BOOLEAN :
        LET job == jobs[j]
            found == FindById(locks, job.lockId)
        IN  jobs' = [jobs EXCEPT ![j] =
                IF ~ok THEN Failed(job, "find")
                ELSE IF ~IsObjectId(job.lockId) THEN Failed(job, "cast")
                ELSE IF found = {} THEN Failed(job, "notFound")
                ELSE LET i == CHOOSE m \in found : \A n \in found : m <= n
                     IN  IF Len(SplitAtHost(locks[i].LockJsonObject.originalcontentUrl)) < 2
                         THEN Failed(job, "find")
                         ELSE [job EXCEPT !.pc = "get", !.lockAt = i, !.lock = locks[i]]]
    /\ UNCHANGED <<outputDir, tmpDir, store, locks, nextReq, s3Location, planVars, rwVars>>

\* GetObject or the download stream failed.
GetFails(j) ==
    /\ jobs[j].pc = "get"
    /\ jobs' = [jobs EXCEPT ![j] = Failed(jobs[j], "get")]
    /\ UNCHANGED <<outputDir, tmpDir, store, locks, nextReq, s3Location, planVars, rwVars>>

\* A generation failure that is swallowed: the handler goes on to publish.
GenerateFails_Continues(j) ==
    /\ jobs[j].pc = "get"
    /\ \E totalDuration \in SourceDurations :
        LET job == jobs[j]
            writes == GenerationWrites(job.req, JobSegments(job.blackoutLocks, totalDuration))
            onDisk == [job EXCEPT !.localMp4Path = LocalMp4Path(job.req),
                                  !.totalDuration = totalDuration]
        IN  \E k \in 0..(Len(writes) - 1) :
                /\ outputDir' = WriteFiles(outputDir, writes, k)
                /\ jobs' = [jobs EXCEPT ![j] =
                        BeginUpload([onDisk EXCEPT !.uniqueSubfolder =
                            IF job.kind = "create"
                            THEN CreateSubfolder(job.folder, job.contentId)
                            ELSE job.folder], outputDir')]
                /\ tmpDir' = tmpDir \cup {LocalMp4Path(job.req)}
    /\ UNCHANGED <<store, locks, nextReq, s3Location, planVars, rwVars>>

\* The source is on disk; createM3U8WithExactSegments throws after k writes.
GenerateFails(j) ==
    /\ jobs[j].pc = "get"
    /\ \E totalDuration \in SourceDurations :
        LET job == jobs[j]
            writes == GenerationWrites(job.req, JobSegments(job.blackoutLocks, totalDuration))
        IN  \E k \in 0..(Len(writes) - 1) :
                /\ outputDir' = WriteFiles(outputDir, writes, k)
                /\ jobs' = [jobs EXCEPT ![j] =
                        Failed([job EXCEPT !.localMp4Path = LocalMp4Path(job.req),
                                           !.totalDuration = totalDuration], "generate")]
                /\ tmpDir' = tmpDir \cup {LocalMp4Path(job.req)}
    /\ UNCHANGED <<store, locks, nextReq, s3Location, planVars, rwVars>>

\* A handler that starts to publish while the last file of the generation is still
\* to be written.
Generated_Pipelined(j) ==
    /\ jobs[j].pc = "get"
    /\ \E totalDuration \in SourceDurations :
        LET job == jobs[j]
            writes == GenerationWrites(job.req, JobSegments(job.blackoutLocks, totalDuration))
            dir == WriteFiles(outputDir, writes, Len(writes) - 1)
            onDisk == [job EXCEPT !.localMp4Path = LocalMp4Path(job.req),
                                  !.totalDuration = totalDuration]
        IN  /\ outputDir' = dir
            /\ tmpDir' = tmpDir \cup {LocalMp4Path(job.req)}
            /\ jobs' = [jobs EXCEPT ![j] =
                    IF job.kind = "create"
                    THEN BeginUpload(
                            [onDisk EXCEPT !.uniqueSubfolder =
                                CreateSubfolder(job.folder, job.contentId)], dir)
                    ELSE [onDisk EXCEPT !.pc = "list", !.uniqueSubfolder = job.folder]]
    /\ UNCHANGED <<store, locks, nextReq, s3Location, planVars, rwVars>>

\* The source is on disk and createM3U8WithExactSegments returned.  create-AES goes
\* on into uploadHlsFilesToS3; modify-AES awaits ListObjectsV2 of its folder.
Generated(j) ==
    /\ jobs[j].pc = "get"
    /\ \E totalDuration \in SourceDurations :
        LET job == jobs[j]
            writes == GenerationWrites(job.req, JobSegments(job.blackoutLocks, totalDuration))
            dir == WriteFiles(outputDir, writes, Len(writes))
            onDisk == [job EXCEPT !.localMp4Path = LocalMp4Path(job.req),
                                  !.totalDuration = totalDuration]
        IN  /\ outputDir' = dir
            /\ tmpDir' = tmpDir \cup {LocalMp4Path(job.req)}
            /\ jobs' = [jobs EXCEPT ![j] =
                    IF job.kind = "create"
                    THEN BeginUpload(
                            [onDisk EXCEPT !.uniqueSubfolder =
                                CreateSubfolder(job.folder, job.contentId)], dir)
                    ELSE [onDisk EXCEPT !.pc = "list", !.uniqueSubfolder = job.folder]]
    /\ UNCHANGED <<store, locks, nextReq, s3Location, planVars, rwVars>>

\* modify-AES: ListObjectsV2 returned or threw; with contents DeleteObjects is
\* awaited, without any the upload starts.
ListDone(j) ==
    /\ jobs[j].pc = "list"
    /\ \E ok \in BOOLEAN :
        LET job == jobs[j]
            contents == ListObjects(store, job.uniqueSubfolder)
        IN  jobs' = [jobs EXCEPT ![j] =
                IF ~ok THEN Failed(job, "list")
                ELSE IF contents # {} THEN [job EXCEPT !.pc = "delete", !.listed = contents]
                ELSE BeginUpload(job, outputDir)]
    /\ UNCHANGED <<outputDir, tmpDir, store, locks, nextReq, s3Location, planVars, rwVars>>

\* A modify that publishes over the old objects and deletes none of them.
DeleteDone_Keeps(j) ==
    /\ jobs[j].pc = "delete"
    /\ \E ok \in BOOLEAN :
        LET job == jobs[j]
        IN  /\ store' = store
            /\ jobs' = [jobs EXCEPT ![j] =
                    IF ok THEN BeginUpload(job, outputDir) ELSE Failed(job, "delete")]
    /\ UNCHANGED <<outputDir, tmpDir, locks, nextReq, s3Location, planVars, rwVars>>

\* modify-AES: DeleteObjects returned or threw; then the upload starts.
DeleteDone(j) ==
    /\ jobs[j].pc = "delete"
    /\ \E ok \in BOOLEAN :
        LET job == jobs[j]
        IN  /\ store' = IF ok THEN DeleteObjects(store, job.listed) ELSE store
            /\ jobs' = [jobs EXCEPT ![j] =
                    IF ok THEN BeginUpload(job, outputDir) ELSE Failed(job, "delete")]
    /\ UNCHANGED <<outputDir, tmpDir, locks, nextReq, s3Location, planVars, rwVars>>

\* An upload loop that removes what it has uploaded when an upload fails.
PutDone_Rollback(j) ==
    /\ jobs[j].pc = "put"
    /\ \E ok \in BOOLEAN :
        LET job == jobs[j]
            file == job.files[job.idx]
            key == job.uniqueSubfolder \o file
            mapped == [job EXCEPT !.fileUrlMapping = (file :> UrlOf(key)) @@ job.fileUrlMapping]
            uploaded == {job.uniqueSubfolder \o f : f \in DOMAIN job.fileUrlMapping}
        IN  /\ store' = IF ok THEN PutObject(store, key, job.buf, ContentTypeOf(file))
                        ELSE [k \in DOMAIN store \ uploaded |-> store[k]]
            /\ jobs' = [jobs EXCEPT ![j] =
                    IF ~ok THEN Failed(job, "put")
                    ELSE IF job.idx = Len(job.files) THEN BeginRewrite(mapped, outputDir)
                    ELSE IF job.files[job.idx + 1] \notin DOMAIN outputDir
                         THEN Failed(mapped, "put")
                    ELSE [mapped EXCEPT !.idx = job.idx + 1,
                                        !.buf = outputDir[job.files[job.idx + 1]]]]
    /\ UNCHANGED <<outputDir, tmpDir, locks, nextReq, s3Location, planVars, rwVars>>

\* uploadHlsFilesToS3: the upload of files[idx] returned or threw; the next file is
\* read and uploaded, or the playlists are rewritten.
PutDone(j) ==
    /\ jobs[j].pc = "put"
    /\ \E ok \in BOOLEAN :
        LET job == jobs[j]
            file == job.files[job.idx]
            key == job.uniqueSubfolder \o file
            mapped == [job EXCEPT !.fileUrlMapping = (file :> UrlOf(key)) @@ job.fileUrlMapping]
        IN  /\ store' = IF ok THEN PutObject(store, key, job.buf, ContentTypeOf(file))
                        ELSE store
            /\ jobs' = [jobs EXCEPT ![j] =
                    IF ~ok THEN Failed(job, "put")
                    ELSE IF job.idx = Len(job.files) THEN BeginRewrite(mapped, outputDir)
                    ELSE IF job.files[job.idx + 1] \notin DOMAIN outputDir
                         THEN Failed(mapped, "put")
                    ELSE [mapped EXCEPT !.idx = job.idx + 1,
                                        !.buf = outputDir[job.files[job.idx + 1]]]]
    /\ UNCHANGED <<outputDir, tmpDir, locks, nextReq, s3Location, planVars, rwVars>>

\* The upload of the rewritten normal playlist returned or threw.
PutNormalDone(j) ==
    /\ jobs[j].pc = "putNormal"
    /\ \E ok \in BOOLEAN :
        LET job == jobs[j]
            key == job.uniqueSubfolder \o NormalPlaylistName
            body == [by |-> job.req, name |-> NormalPlaylistName,
                     lines |-> job.updatedNormalPlaylist]
        IN  /\ store' = IF ok THEN PutObject(store, key, body, PlaylistMimeType)
                        ELSE store
            /\ jobs' = [jobs EXCEPT ![j] =
                    IF ok THEN [job EXCEPT !.pc = "putBlackout", !.normalUrl = UrlOf(key)]
                    ELSE Failed(job, "putNormal")]
    /\ UNCHANGED <<outputDir, tmpDir, locks, nextReq, s3Location, planVars, rwVars>>

\* The upload of the rewritten blackout playlist returned or threw; on success the
\* local files are removed and the save of the Lock document is awaited.
PutBlackoutDone(j) ==
    /\ jobs[j].pc = "putBlackout"
    /\ \E ok \in BOOLEAN :
        LET job == jobs[j]
            key == job.uniqueSubfolder \o BlackoutPlaylistName
            body == [by |-> job.req, name |-> BlackoutPlaylistName,
                     lines |-> job.updatedBlackoutPlaylist]
        IN  /\ store' = IF ok THEN PutObject(store, key, body, PlaylistMimeType)
                        ELSE store
            /\ outputDir' = IF ok THEN <<>> ELSE outputDir
            /\ tmpDir' = IF ok THEN tmpDir \ {job.localMp4Path} ELSE tmpDir
            /\ jobs' = [jobs EXCEPT ![j] =
                    IF ok THEN [job EXCEPT !.pc = "save", !.blackoutUrl = UrlOf(key)]
                    ELSE Failed(job, "putBlackout")]
    /\ UNCHANGED <<locks, nextReq, s3Location, planVars, rwVars>>

\* newLock.save() / lock.save() returned or threw.
SaveDone(j) ==
    /\ jobs[j].pc = "save"
    /\ \E ok \in BOOLEAN :
        LET job == jobs[j]
        IN  /\ locks' =
                IF job.kind = "create"
                THEN (IF ok
                      THEN Append(locks, NewLock(Len(locks) + 1, job.req, job.contentId,
                                                 job.blackoutUrl, job.blackoutLocks))
                      ELSE locks)
                ELSE LocksAfterSave(locks, job.lockAt,
                        ModifiedLock(job.lock, job.req, job.blackoutUrl, job.blackoutLocks), ok)
            /\ jobs' = [jobs EXCEPT ![j] =
                    IF ok THEN Succeeded(job) ELSE Failed(job, "save")]
    /\ UNCHANGED <<outputDir, tmpDir, store, nextReq, s3Location, planVars, rwVars>>

JobNext ==
    \E j \in Slots :
        \/ StartCreate(j)
        \/ StartModify(j)
        \/ FindDone(j)
        \/ GetFails(j)
        \/ GenerateFails(j)
        \/ Generated(j)
        \/ ListDone(j)
        \/ DeleteDone(j)
        \/ PutDone(j)
        \/ PutNormalDone(j)
        \/ PutBlackoutDone(j)
        \/ SaveDone(j)

Spec == JobInit /\ [][JobNext]_vars

(* -------- /delete-AES ---------------------------------------------------- *)

\* awsData.folderPrefix of a delete request.
DeleteFolderPrefixes == { <<"v">> }

\* Lock.findOne({ "LockJsonObject.lockId": lockId }): positions of the matches.
FindByLockId(docs, lockId) ==
    {i \in 1..Len(docs) : docs[i].LockJsonObject.lockId = lockId}

\* A delete that empties the whole folder of the caller, whatever the content id.
FolderToDelete_WholeFolder(folderPrefix, contentId) ==
    IF folderPrefix # <<>> /\ folderPrefix[Len(folderPrefix)] = "/"
    THEN folderPrefix
    ELSE folderPrefix \o <<"/">>

\* normalizedPrefix + contentId + '/'
FolderToDelete(folderPrefix, contentId) ==
    LET normalizedPrefix ==
            IF folderPrefix # <<>> /\ folderPrefix[Len(folderPrefix)] = "/"
            THEN folderPrefix
            ELSE folderPrefix \o <<"/">>
    IN  normalizedPrefix \o contentId \o <<"/">>

\* POST /delete-AES arrives with a valid body; Lock.findOne is awaited.
StartDelete(j) ==
    /\ Takes(j) /\ nextReq <= MaxRequests
    /\ \E lockId \in ReturnedLockIds(locks) \cup UnknownLockIds,
          folderPrefix \in DeleteFolderPrefixes :
        jobs' = [jobs EXCEPT ![j] =
            [IdleJob EXCEPT !.pc = "findByLockId", !.kind = "delete", !.req = nextReq,
                            !.lockId = lockId, !.folder = folderPrefix]]
    /\ nextReq' = nextReq + 1
    /\ UNCHANGED <<outputDir, tmpDir, store, locks, s3Location, planVars, rwVars>>

\* Lock.findOne returned or threw; on a document with a content id, ListObjectsV2
\* of the folder is awaited.
DeleteFindDone(j) ==
    /\ jobs[j].pc = "findByLockId"
    /\ \E ok \in BOOLEAN :
        LET job == jobs[j]
            found == FindByLockId(locks, job.lockId)
        IN  jobs' = [jobs EXCEPT ![j] =
                IF ~ok THEN Failed(job, "find")
                ELSE IF found = {} THEN Failed(job, "notFound")
                ELSE LET i == CHOOSE m \in found : \A n \in found : m <= n
                         contentId == locks[i].LockJsonObject.contentId
                     IN  IF contentId = <<>> THEN Failed(job, "find")
                         ELSE [job EXCEPT !.pc = "listFolder", !.lockAt = i,
                                          !.contentId = contentId,
                                          !.uniqueSubfolder =
                                              FolderToDelete(job.folder, contentId)]]
    /\ UNCHANGED <<outputDir, tmpDir, store, locks, nextReq, s3Location, planVars, rwVars>>

\* ListObjectsV2 returned or threw; with contents DeleteObjects is awaited, without
\* any the handler answers 404.
DeleteListDone(j) ==
    /\ jobs[j].pc = "listFolder"
    /\ \E ok \in BOOLEAN :
        LET job == jobs[j]
            contents == ListObjects(store, job.uniqueSubfolder)
        IN  jobs' = [jobs EXCEPT ![j] =
                IF ~ok THEN Failed(job, "list")
                ELSE IF contents = {} THEN Failed(job, "notFound")
                ELSE [job EXCEPT !.pc = "deleteFolder", !.listed = contents]]
    /\ UNCHANGED <<outputDir, tmpDir, store, locks, nextReq, s3Location, planVars, rwVars>>

\* DeleteObjects returned or threw.
DeleteObjectsDone(j) ==
    /\ jobs[j].pc = "deleteFolder"
    /\ \E ok \in BOOLEAN :
        LET job == jobs[j]
        IN  /\ store' = IF ok THEN DeleteObjects(store, job.listed) ELSE store
            /\ jobs' = [jobs EXCEPT ![j] =
                    IF ok THEN Succeeded(job) ELSE Failed(job, "delete")]
    /\ UNCHANGED <<outputDir, tmpDir, locks, nextReq, s3Location, planVars, rwVars>>

\* The create, modify and delete handlers together.
ServiceNext ==
    \/ JobNext
    \/ \E j \in Slots :
        \/ StartDelete(j)
        \/ DeleteFindDone(j)
        \/ DeleteListDone(j)
        \/ DeleteObjectsDone(j)

SpecService == JobInit /\ [][ServiceNext]_vars

\* C11: the rewrite keeps the number and order of lines, replaces a line by its
\* mapped URL only when the line is exactly a chunk name that is a key of the map,
\* and returns every other line (directives, blank lines, lines with surrounding
\* whitespace, playlist names) unchanged.
C11_RewriteExactMatchOnly ==
    Len(rwOut) >= 1 =>
        /\ Len(rwOut[1]) = Len(rwIn.content)
        /\ \A i \in 1..Len(rwIn.content) :
            LET line == rwIn.content[i]
            IN  rwOut[1][i] =
                    IF endsWithTs(line) /\ line \in DOMAIN rwIn.fileUrlMapping
                    THEN rwIn.fileUrlMapping[line]
                    ELSE line

----------------------------------------------------------------------------
(* Properties of the request handlers (Spec).                              *)

\* The names createM3U8WithExactSegments writes for a request's timeline.
GeneratedNames(job) ==
    LET writes == GenerationWrites(job.req, JobSegments(job.blackoutLocks, job.totalDuration))
    IN  {writes[i].name : i \in 1..Len(writes)}

\* A handler that has generated its files and has not yet removed them.
Publishing(j) == jobs[j].pc \in {"list", "delete", "put", "putNormal", "putBlackout"}

\* C4: when modify succeeds, the objects under the job's prefix are exactly the
\* chunks (and the two playlists) generated for the new timeline; nothing of an
\* earlier layout and no other object is left under the prefix.
C4_ModifyLeavesOnlyNewChunks ==
    [][\A j \in Slots :
        (jobs[j].kind = "modify" /\ jobs[j].pc = "save" /\ jobs'[j].pc = "done")
            => ListObjects(store', jobs[j].uniqueSubfolder)
                 = {jobs[j].uniqueSubfolder \o f : f \in GeneratedNames(jobs[j])}]_vars

\* C5: while a job is publishing, every file it generated is still in the
\* directory it works in with the content that job generated, and what it reads
\* for upload is its own content.
C5_JobsAreIsolated ==
    \A j \in Slots :
        Publishing(j) =>
            /\ \A f \in GeneratedNames(jobs[j]) :
                f \in DOMAIN outputDir /\ outputDir[f].by = jobs[j].req
            /\ jobs[j].pc = "put" => jobs[j].buf.by = jobs[j].req

\* C6: when a request has returned, in DONE or in ERROR, no file that job wrote is
\* left in the temp or the output directory.
C6_TeardownOnEveryExit ==
    \A j \in Slots :
        jobs[j].pc \in {"done", "error"} =>
            /\ LocalMp4Path(jobs[j].req) \notin tmpDir
            /\ \A f \in DOMAIN outputDir : outputDir[f].by # jobs[j].req

\* C7: the lock store changes only in the step in which a save returns
\* successfully and the request ends in DONE; no other step of a modify request, and
\* none of a modify request that ends in ERROR, changes a Lock document.
C7_RecordChangesOnlyOnSuccess ==
    [][/\ locks' # locks =>
            \E j \in Slots : jobs[j].pc = "save" /\ jobs'[j].pc = "done"
       /\ \A j \in Slots :
            (jobs[j].kind = "modify" /\ jobs'[j] # jobs[j] /\ jobs'[j].pc # "done")
                => locks' = locks]_vars

\* A modify request with new intervals failed in the second publish phase, after
\* deleteAll removed the objects create had published and after the first phase, and
\* the document still holds the old intervals and locator.
C7_Witness ==
    \E j \in Slots :
        /\ jobs[j].kind = "modify" /\ jobs[j].pc = "error"
        /\ jobs[j].at = "putBlackout"
        /\ jobs[j].blackoutLocks = <<>>
        /\ jobs[j].uniqueSubfolder = CreateSubfolder(EarlierFolder, EarlierContentId)
        /\ CreateSubfolder(EarlierFolder, EarlierContentId) \o BlackoutName(0) \notin DOMAIN store
        /\ Len(locks[jobs[j].lockAt].LockJsonObject.blackoutLocks) = 1
        /\ locks[jobs[j].lockAt].LockJsonObject.lockedcontenturl
             = locks[jobs[j].lockAt].LockedContentUrl

\* C8: the prefix a modify request clears and uploads to is the prefix create used
\* for the job: the one the document's locator, set by create, lies under.
C8_ModifyUsesCreatePrefix ==
    \A j \in Slots :
        (jobs[j].kind = "modify" /\ Publishing(j)) =>
            UrlOf(jobs[j].uniqueSubfolder \o BlackoutPlaylistName)
                = jobs[j].lock.LockedContentUrl

\* C9: when a job reaches DONE, the objects at <prefix>output.m3u8 and
\* <prefix>blackout.m3u8 hold playlists in which every chunk reference is a URL of
\* the job's publish map and no local chunk name is left.
C9_PublishedPlaylistsAreRewritten ==
    [][\A j \in Slots :
        (jobs[j].pc = "save" /\ jobs'[j].pc = "done") =>
            \A name \in {NormalPlaylistName, BlackoutPlaylistName} :
                LET key == jobs[j].uniqueSubfolder \o name
                    urls == {jobs[j].fileUrlMapping[f] : f \in DOMAIN jobs[j].fileUrlMapping}
                IN  /\ key \in DOMAIN store'
                    /\ \A i \in 1..Len(store'[key].lines) :
                        LET line == store'[key].lines[i]
                        IN  ~IsDirective(line) =>
                                line \in urls /\ line \notin DOMAIN jobs[j].fileUrlMapping]_vars

\* The stage a handler is in: before the publish (the source is fetched; planning and
\* generation run in the step that leaves this stage), PUBLISHING (phase 1),
\* REWRITING (the rewrite, phase 2 and the save), and the two ends.
StageRank(pc) ==
    CASE pc \in {"find", "get"} -> 0
      [] pc \in {"list", "delete", "put"} -> 1
      [] pc \in {"putNormal", "putBlackout", "save"} -> 2
      [] pc = "done" -> 3
      [] OTHER -> 4

\* The await a handler is at, in program order.
AwaitRank(job) ==
    CASE job.pc = "find" -> 10
      [] job.pc = "get" -> 20
      [] job.pc = "list" -> 30
      [] job.pc = "delete" -> 40
      [] job.pc = "put" -> 50 + job.idx
      [] job.pc = "putNormal" -> 70
      [] job.pc = "putBlackout" -> 80
      [] job.pc = "save" -> 90
      [] OTHER -> 100

Running(j) == ~Free(j)

\* C14: a job goes through its stages in order only, never back and never skipping
\* one, and never awaits the same operation twice; from any stage its only other
\* step is into ERROR; a job in ERROR (or DONE) takes no further step: its record
\* changes only when a new request takes its place, and every change of the blob
\* store or the lock store comes with a step of a job that was still running.
C14_StagesInOrderErrorTerminal ==
    [][\A j \in Slots :
            LET a == jobs[j]
                b == jobs'[j]
            IN  /\ (Running(j) /\ b # a) =>
                    /\ b.req = a.req
                    /\ \/ b.pc = "error"
                       \/ /\ StageRank(b.pc) - StageRank(a.pc) \in {0, 1}
                          /\ AwaitRank(b) > AwaitRank(a)
                /\ (Free(j) /\ b # a) =>
                    b.req > a.req /\ b.pc \in {"find", "get"}
                /\ (store' # store \/ locks' # locks) =>
                    \E k \in Slots : Running(k) /\ jobs'[k] # jobs[k]]_vars

\* One job ended in ERROR during generation and stays there while a later job,
\* having gone through every stage, ended in ERROR at the save.
C14_Witness ==
    \E j, k \in Slots :
        /\ jobs[j].pc = "error" /\ jobs[j].at = "generate"
        /\ jobs[k].pc = "error" /\ jobs[k].at = "save" /\ jobs[k].req > jobs[j].req

\* C15: a transcoder failure ends the job.  A handler leaves generation for the
\* publish only when every chunk and playlist of its timeline has been written; the
\* step in which generation fails changes neither store; and once a job has failed
\* in generation it writes no further file, uploads and deletes nothing and saves no
\* record: every later change is made by the step of another, running job.
C15_TranscoderFailureIsFatal ==
    [][\A j \in Slots :
        LET a == jobs[j]
            b == jobs'[j]
        IN  /\ (a.pc = "get" /\ b # a /\ b.pc # "error") =>
                \A f \in GeneratedNames(b) :
                    f \in DOMAIN outputDir' /\ outputDir'[f].by = b.req
            /\ (a.pc = "get" /\ b.pc = "error") =>
                store' = store /\ locks' = locks
            /\ (a.pc = "error" /\ a.at = "generate") =>
                /\ b # a => UNCHANGED <<outputDir, tmpDir, store, locks>>
                /\ (b = a /\ <<outputDir, tmpDir, store, locks>>' # <<outputDir, tmpDir, store, locks>>)
                        => \E k \in Slots \ {j} : Running(k) /\ jobs'[k] # jobs[k]]_vars

\* A job failed in generation after it had written a file; that file has been
\* uploaded by another, later job, which ended in DONE.
C15_Witness ==
    \E j, k \in Slots :
        /\ jobs[j].pc = "error" /\ jobs[j].at = "generate"
        /\ \E f \in DOMAIN store : store[f].by = jobs[j].req
        /\ jobs[k].pc = "done" /\ jobs[k].req > jobs[j].req

\* The Lock documents create saved for request req.
RecordsOf(docs, req) ==
    {i \in 1..Len(docs) : docs[i].LockJsonObject.lockId = <<"uuid">> \o DecStr(req)}

\* C16: a create job that fails answers with an error only, without the playlist
\* URLs, and creates no Lock document; a document is created only in the step in
\* which the save of a create job returns, after both phase-2 uploads returned their
\* URLs, and its redacted locator is the URL returned for <prefix>blackout.m3u8.
C16_FailedCreateLeavesNoRecord ==
    [][/\ \A j \in Slots :
            LET a == jobs[j]
                b == jobs'[j]
            IN  (Running(j) /\ a.kind = "create" /\ b.pc = "error") =>
                    /\ b.normalUrl = <<>> /\ b.blackoutUrl = <<>>
                    /\ locks' = locks
                    /\ RecordsOf(locks', a.req) = {}
       /\ Len(locks') # Len(locks) =>
            \E j \in Slots :
                LET a == jobs[j]
                IN  /\ a.kind = "create" /\ a.pc = "save" /\ jobs'[j].pc = "done"
                    /\ a.normalUrl = UrlOf(a.uniqueSubfolder \o NormalPlaylistName)
                    /\ a.blackoutUrl = UrlOf(a.uniqueSubfolder \o BlackoutPlaylistName)
                    /\ jobs'[j].blackoutUrl = a.blackoutUrl
                    /\ Len(locks') = Len(locks) + 1
                    /\ RecordsOf(locks', a.req) = {Len(locks')}
                    /\ locks'[Len(locks')].LockedContentUrl = a.blackoutUrl
                    /\ locks'[Len(locks')].LockJsonObject.lockedcontenturl = a.blackoutUrl
                    /\ \A i \in 1..Len(locks) : locks'[i] = locks[i]]_vars

\* One create job failed in the second phase-2 upload and has no document; another
\* ended in DONE and its document holds the URL of its blackout playlist.
C16_Witness ==
    \E j, k \in Slots :
        /\ jobs[j].kind = "create" /\ jobs[j].pc = "error" /\ jobs[j].at = "putBlackout"
        /\ RecordsOf(locks, jobs[j].req) = {}
        /\ jobs[k].kind = "create" /\ jobs[k].pc = "done"
        /\ \E i \in RecordsOf(locks, jobs[k].req) :
            locks[i].LockedContentUrl = jobs[k].blackoutUrl

\* C17: in the upload loop each step is one attempt for one object.  A step that
\* succeeds adds exactly the object <prefix><file> with the content read for it, for
\* a file this job had not uploaded before; a step that fails leaves every object of
\* the store as it is (nothing uploaded earlier is removed), ends the job in ERROR
\* and is followed by no further upload of that job.
C17_OneAttemptNoRetryNoRollback ==
    [][\A j \in Slots :
        LET a == jobs[j]
            b == jobs'[j]
        IN  /\ (a.pc = "put" /\ b # a) =>
                LET file == a.files[a.idx]
                    key == a.uniqueSubfolder \o file
                    added == /\ key \in DOMAIN store'
                             /\ store' = PutObject(store, key, a.buf, store'[key].contentType)
                IN  /\ file \notin DOMAIN a.fileUrlMapping
                    /\ \A k \in DOMAIN store : k # key =>
                            k \in DOMAIN store' /\ store'[k] = store[k]
                    /\ \/ /\ b.pc = "error" /\ b.at = "put"
                          /\ store' = store \/ added
                       \/ /\ b.pc \in {"put", "putNormal"}
                          /\ added
                          /\ DOMAIN b.fileUrlMapping = DOMAIN a.fileUrlMapping \cup {file}
                          /\ b.pc = "put" => b.idx = a.idx + 1
                       \/ /\ b.pc = "error" /\ b.at = "rewrite"
                          /\ added
            /\ (a.pc = "error" /\ a.at = "put" /\ b # a) =>
                b.req > a.req /\ store' = store]_vars

\* A job whose upload loop failed part way: the first object it uploaded is in the
\* store under its prefix, a later file of its listing is not.
C17_Witness ==
    \E j \in Slots :
        /\ jobs[j].pc = "error" /\ jobs[j].at = "put"
        /\ jobs[j].uniqueSubfolder \o BlackoutPlaylistName \in DOMAIN store
        /\ store[jobs[j].uniqueSubfolder \o BlackoutPlaylistName].by = jobs[j].req
        /\ jobs[j].uniqueSubfolder \o SegmentName(0) \notin DOMAIN store

(* -------- /download-video ----------------------------------------------- *)

\* folderPrefix of a download request.
DownloadPrefixes == { <<"v", "/", "c", "1", "/">>, <<"v", "/", "c", "2", "/">> }

\* data.Contents under the prefix, as file names relative to it, in key order.
RelativeListing(contents, folderPrefix) ==
    SelectSeq(FileOrder, LAMBDA f : folderPrefix \o f \in contents)

\* The file download-video leaves for a fetched object: a playlist has the URL
\* prefix stripped from its lines.
Downloaded(object, file, folderPrefix) ==
    [by |-> object.by, name |-> object.name,
     lines |-> IF endsWithM3u8(file)
               THEN stripS3UrlPrefix(object.lines,
                                     S3UrlPrefix(Bucket, Region, folderPrefix))
               ELSE object.lines]

\* POST /download-video arrives: the output directory is emptied, ListObjectsV2 of
\* the prefix is awaited.
StartDownload(j) ==
    /\ Takes(j) /\ nextReq <= MaxRequests
    /\ \E folderPrefix \in DownloadPrefixes :
        jobs' = [jobs EXCEPT ![j] =
            [IdleJob EXCEPT !.pc = "listPrefix", !.kind = "download", !.req = nextReq,
                            !.folder = folderPrefix, !.uniqueSubfolder = folderPrefix]]
    /\ outputDir' = <<>>
    /\ nextReq' = nextReq + 1
    /\ UNCHANGED <<tmpDir, store, locks, s3Location, planVars, rwVars>>

\* ListObjectsV2 returned or threw; without contents the handler answers 404, with
\* contents GetObject of the first key is awaited.
DownloadListDone(j) ==
    /\ jobs[j].pc = "listPrefix"
    /\ \E ok \in BOOLEAN :
        LET job == jobs[j]
            contents == ListObjects(store, job.folder)
        IN  jobs' = [jobs EXCEPT ![j] =
                IF ~ok THEN Failed(job, "list")
                ELSE IF contents = {} THEN Failed(job, "notFound")
                ELSE [job EXCEPT !.pc = "fetch", !.idx = 1,
                                 !.files = RelativeListing(contents, job.folder)]]
    /\ UNCHANGED <<outputDir, tmpDir, store, locks, nextReq, s3Location, planVars, rwVars>>

\* GetObject of files[idx] and the pipeline to its local file returned or threw;
\* a playlist is rewritten in place, then the next key is fetched.
DownloadGetDone(j) ==
    /\ jobs[j].pc = "fetch"
    /\ \E ok \in BOOLEAN :
        LET job == jobs[j]
            file == job.files[job.idx]
            key == job.folder \o file
            got == ok /\ key \in DOMAIN store
        IN  /\ outputDir' = IF got
                            THEN (file :> Downloaded(store[key], file, job.folder)) @@ outputDir
                            ELSE outputDir
            /\ jobs' = [jobs EXCEPT ![j] =
                    IF ~got THEN Failed(job, "fetch")
                    ELSE IF job.idx = Len(job.files) THEN Succeeded(job)
                    ELSE [job EXCEPT !.idx = job.idx + 1]]
    /\ UNCHANGED <<tmpDir, store, locks, nextReq, s3Location, planVars, rwVars>>

\* All handlers of the server together.
FetchNext ==
    \/ ServiceNext
    \/ \E j \in Slots :
        \/ StartDownload(j)
        \/ DownloadListDone(j)
        \/ DownloadGetDone(j)

SpecFetch == JobInit /\ [][FetchNext]_vars

(* -------- Properties of the service with delete (SpecService) ----------- *)

C19_ReturnedLockIdResolves ==
    \A j \in Slots :
        jobs[j].lockId \in ReturnedLockIds(locks) =>
            /\ jobs[j].pc = "find" => FindById(locks, jobs[j].lockId) # {}
            /\ jobs[j].pc = "findByLockId" =>
                    \E i \in FindByLockId(locks, jobs[j].lockId) :
                        locks[i].LockJsonObject.lockId = jobs[j].lockId

(* -------- Properties of the fetch of a playlist (SpecRewrite) ----------- *)

\* C20: in a playlist rewritten with the publish map of a prefix and then fetched
\* with the URL prefix of that prefix stripped, every line that was the name of a
\* published chunk is that name again.
C20_FetchInvertsRewrite ==
    Len(rwOut) >= 3 =>
        \A i \in 1..Len(rwIn.content) :
            LET line == rwIn.content[i]
            IN  (endsWithTs(line) /\ line \in DOMAIN rwIn.fileUrlMapping) =>
                    rwOut[3][i] = line

(* -------- Properties of the publisher in the handlers (Spec) ------------ *)

\* C21: when the store reports no Location, the URL recorded for an uploaded file
\* is the one built from the bucket and the key of the file, and it names the
\* region of the bucket.
C21_FallbackUrlNamesRegion ==
    ~s3Location =>
        \A j \in Slots : \A f \in DOMAIN jobs[j].fileUrlMapping :
            LET url == jobs[j].fileUrlMapping[f]
            IN  /\ url = uploadToS3(Bucket, jobs[j].uniqueSubfolder \o f, <<>>)
                /\ \E i \in 1..Len(url) : url[i] = Region

(* -------- The remote prefix during a modify (SpecService) --------------- *)

\* C22: a modify removes every listed object of its prefix in one step, before its
\* first upload, and brings the prefix back one object per upload step; nothing
\* keeps another handler from reading the prefix in between.
C22_PrefixEmptiedThenRefilledStepwise ==
    [][\A j \in Slots :
        LET a == jobs[j]
            b == jobs'[j]
        IN  (a.kind = "modify" /\ Running(j) /\ b # a) =>
                /\ (a.pc = "delete" /\ b.pc # "error") =>
                        /\ a.listed # {}
                        /\ DOMAIN store' = DOMAIN store \ a.listed
                        /\ b.fileUrlMapping = <<>>
                /\ a.pc \in {"put", "putNormal", "putBlackout"} =>
                        /\ DOMAIN store \subseteq DOMAIN store'
                        /\ Cardinality(DOMAIN store' \ DOMAIN store) <= 1
                        /\ \A k \in DOMAIN store' \ DOMAIN store :
                                startsWith(k, a.uniqueSubfolder)
    ]_vars

\* A modify has deleted the objects of its prefix and its first upload is pending;
\* a delete request for the same job is about to list the prefix, which is empty,
\* while the Lock document still names the playlist that was there.
C22_Witness ==
    \E j, k \in Slots :
        /\ jobs[j].kind = "modify" /\ jobs[j].pc = "put" /\ jobs[j].idx = 1
        /\ jobs[j].uniqueSubfolder = CreateSubfolder(EarlierFolder, EarlierContentId)
        /\ ListObjects(store, jobs[j].uniqueSubfolder) = {}
        /\ jobs[k].kind = "delete" /\ jobs[k].pc = "listFolder"
        /\ jobs[k].uniqueSubfolder = jobs[j].uniqueSubfolder
        /\ Len(locks) >= 1 /\ locks[1].LockJsonObject.lockedcontenturl # <<>>

\* The prefix partly refilled: the raw blackout playlist is back, the chunk its
\* first reference names is not.
C22_PartlyPopulated ==
    \E j \in Slots :
        /\ jobs[j].kind = "modify" /\ jobs[j].pc = "put"
        /\ jobs[j].uniqueSubfolder \o BlackoutPlaylistName \in DOMAIN store
        /\ store[jobs[j].uniqueSubfolder \o BlackoutPlaylistName].by = jobs[j].req
        /\ \E i \in 1..Len(store[jobs[j].uniqueSubfolder \o BlackoutPlaylistName].lines) :
            LET line == store[jobs[j].uniqueSubfolder \o BlackoutPlaylistName].lines[i]
            IN  endsWithTs(line) /\ jobs[j].uniqueSubfolder \o line \notin DOMAIN store

----------------------------------------------------------------------------
(* Requests whose blackout intervals are out of range or overlap.  The     *)
(* handlers read blackoutLocks from the body and pass them on unchecked.   *)

\* An interval that ends after the source, and two intervals that overlap.
UncheckedIntervalLists ==
    { << [startTime |-> 1, endTime |-> 3] >>,
      << [startTime |-> 0, endTime |-> 2], [startTime |-> 1, endTime |-> 2] >> }

\* POST /create-AES with such a list; GetObject of the source is awaited.
StartCreateUnchecked(j) ==
    /\ Takes(j) /\ nextReq <= MaxRequests
    /\ \E folder \in DestinationFolders, contentId \in ContentIds,
          blackoutLocks \in UncheckedIntervalLists :
        jobs' = [jobs EXCEPT ![j] =
            [IdleJob EXCEPT !.pc = "get", !.kind = "create", !.req = nextReq,
                            !.folder = folder, !.contentId = contentId,
                            !.blackoutLocks = blackoutLocks]]
    /\ nextReq' = nextReq + 1
    /\ UNCHANGED <<outputDir, tmpDir, store, locks, s3Location, planVars, rwVars>>

\* POST /modify-AES with such a list; Lock.findOne is awaited.
StartModifyUnchecked(j) ==
    /\ Takes(j) /\ nextReq <= MaxRequests
    /\ \E lockId \in {locks[i]._id : i \in 1..Len(locks)},
          folder \in ModifyFolders, newBlackoutLocks \in UncheckedIntervalLists :
        jobs' = [jobs EXCEPT ![j] =
            [IdleJob EXCEPT !.pc = "find", !.kind = "modify", !.req = nextReq,
                            !.lockId = lockId, !.folder = folder,
                            !.blackoutLocks = newBlackoutLocks]]
    /\ nextReq' = nextReq + 1
    /\ UNCHANGED <<outputDir, tmpDir, store, locks, s3Location, planVars, rwVars>>

InputNext ==
    \/ JobNext
    \/ \E j \in Slots :
        \/ StartCreateUnchecked(j)
        \/ StartModifyUnchecked(j)

SpecInput == JobInit /\ [][InputNext]_vars

\* 0 <= start < end <= D for every interval of a request, and no two overlap.
WellFormedLocks(blackoutLocks, D) ==
    /\ \A i \in 1..Len(blackoutLocks) :
        /\ 0 <= blackoutLocks[i].startTime
        /\ blackoutLocks[i].startTime < blackoutLocks[i].endTime
        /\ blackoutLocks[i].endTime <= D
    /\ \A i, k \in 1..Len(blackoutLocks) :
        i # k => \/ blackoutLocks[i].endTime <= blackoutLocks[k].startTime
                 \/ blackoutLocks[k].endTime <= blackoutLocks[i].startTime

\* C23: a create or modify whose intervals are out of range or overlap, once the
\* duration of its source is known, never succeeds, has no object in the blob
\* store, and no Lock document was created by it or carries its interval list.
C23_MalformedIntervalsRejected ==
    \A j \in Slots :
        LET job == jobs[j]
        IN  ( /\ job.kind \in {"create", "modify"}
              /\ job.totalDuration > 0
              /\ ~WellFormedLocks(job.blackoutLocks, job.totalDuration) ) =>
                /\ job.pc # "done"
                /\ \A k \in DOMAIN store : store[k].by # job.req
                /\ RecordsOf(locks, job.req) = {}
                /\ \A i \in 1..Len(locks) :
                        locks[i].LockJsonObject.blackoutLocks
                            # BlackoutLockEntries(job.req, job.blackoutLocks)

----------------------------------------------------------------------------
(* Properties of all handlers together (SpecFetch).                        *)

\* C24: a modify or a delete whose lock id is the id of no Lock document ends at
\* its lookup, as not found unless the lock store itself failed, and no step of it
\* changes the blob store, the Lock documents or the local directories; a download
\* whose prefix lists no object ends at its listing, as not found unless the
\* listing itself failed, and writes no file.
C24_UnknownEndsNotFoundWithoutEffect ==
    [][\A j \in Slots :
        LET a == jobs[j]
            b == jobs'[j]
            unknown ==
                /\ a.pc \in {"find", "findByLockId"}
                /\ FindById(locks, a.lockId) = {}
                /\ FindByLockId(locks, a.lockId) = {}
            empty == a.pc = "listPrefix" /\ ListObjects(store, a.folder) = {}
        IN  /\ (b # a /\ b.pc \in {"find", "findByLockId"}) =>
                    UNCHANGED <<store, locks, outputDir, tmpDir>>
            /\ (b # a /\ unknown) =>
                    /\ b.pc = "error" /\ b.at \in {"notFound", "find"}
                    /\ b.req = a.req
                    /\ UNCHANGED <<store, locks, outputDir, tmpDir>>
            /\ (b # a /\ empty) =>
                    /\ b.pc = "error" /\ b.at \in {"notFound", "list"}
                    /\ b.req = a.req
                    /\ UNCHANGED <<store, locks, outputDir, tmpDir>>
    ]_vars

----------------------------------------------------------------------------
(* Further properties of the planner and the playlist builder (SpecPlan).  *)

\* The blackout segments of a timeline, in its order.
BlackoutsOf(segments) == SelectSeq(segments, LAMBDA seg : seg.isBlackout)

\* C25: the blackout segments of the timeline, in order, are the input intervals
\* in ascending order of start (intervals of equal start in input order), each
\* with the start and the end it came with: none is merged, cut or dropped.
C25_NeitherMergedNorClamped ==
    Planned =>
        LET B == BlackoutsOf(planOut.allSegments)
            n == Len(Intervals)
        IN  /\ Len(B) = n
            /\ \A i \in 1..(n - 1) : B[i].start <= B[i + 1].start
            /\ \E p \in [1..n -> 1..n] :
                    /\ \A i, k \in 1..n : i # k => p[i] # p[k]
                    /\ \A i \in 1..n :
                            /\ B[i].start = Intervals[p[i]].start
                            /\ B[i].end = Intervals[p[i]].end
                    /\ \A i, k \in 1..n :
                            (i < k /\ B[i].start = B[k].start) => p[i] < p[k]

\* Two overlapping intervals given in descending order of start, the later one
\* ending after the source: the timeline has both, in ascending order, whole.
C25_Witness ==
    /\ Planned
    /\ Len(Intervals) = 2
    /\ Intervals[2].start < Intervals[1].start
    /\ Intervals[1].start < Intervals[2].end
    /\ Intervals[1].end > planIn.totalDuration
    /\ Len(BlackoutsOf(planOut.allSegments)) = 2
    /\ BlackoutsOf(planOut.allSegments)[2].end = Intervals[1].end

\* C27: the two playlists of a timeline are synchronized: as many lines in each,
\* five header lines and an end marker that are the same, per segment the same
\* duration directive (the length of the segment with six decimals), and a chunk
\* reference that differs exactly at the blackout segments.
C27_PlaylistsSynchronized ==
    planPc = "built" =>
        LET N == planOut.normal
            B == planOut.blackout
            segs == planOut.allSegments
            n == Len(segs)
        IN  /\ Len(N) = 5 + 2 * n + 1
            /\ Len(B) = Len(N)
            /\ \A i \in 1..5 : N[i] = B[i] /\ IsDirective(N[i])
            /\ N[Len(N)] = <<"#EXT-X-ENDLIST">> /\ B[Len(B)] = N[Len(N)]
            /\ \A k \in 1..n :
                LET inf == N[5 + 2 * k - 1]
                IN  /\ B[5 + 2 * k - 1] = inf
                    /\ inf[1] = "#EXTINF:" /\ inf[Len(inf)] = ","
                    /\ inf[Len(inf) - 2] = "."
                    /\ inf[Len(inf) - 1] \in {"000000", "500000"}
                    /\ SubSeq(inf, 2, Len(inf) - 1) = toFixed6(segs[k].end - segs[k].start)
                    /\ (N[5 + 2 * k] # B[5 + 2 * k]) <=> segs[k].isBlackout
                    /\ ~IsDirective(N[5 + 2 * k]) /\ ~IsDirective(B[5 + 2 * k])

\* A timeline of three segments with a blackout in the middle, of a length that is
\* not a whole number of seconds: the playlists differ in one line.
C27_Witness ==
    /\ planPc = "built"
    /\ Len(planOut.allSegments) = 3
    /\ planOut.allSegments[2].isBlackout /\ ~planOut.allSegments[1].isBlackout
    /\ ~planOut.allSegments[3].isBlackout
    /\ (planOut.allSegments[2].end - planOut.allSegments[2].start) % 2 = 1
    /\ Cardinality({i \in 1..Len(planOut.normal) :
                        planOut.normal[i] # planOut.blackout[i]}) = 1
    /\ planOut.normal[9] # planOut.blackout[9]

----------------------------------------------------------------------------
(* Further properties of the request handlers (Spec).                      *)

\* C26: within a job generation and upload are staged.  The step that leaves
\* generation has written every chunk and both raw playlists of the timeline; the
\* blob store changes only in steps of a job that is past generation; and a job
\* past generation writes or changes no file of the output directory.
C26_GenerationBeforeUpload ==
    [][\A j \in Slots :
        LET a == jobs[j]
            b == jobs'[j]
        IN  (Running(j) /\ b # a /\ a.kind \in {"create", "modify"}) =>
                /\ (a.pc = "get" /\ b.pc # "error") =>
                        LET writes == GenerationWrites(b.req,
                                        JobSegments(b.blackoutLocks, b.totalDuration))
                        IN  /\ b.totalDuration \in SourceDurations
                            /\ outputDir' = WriteFiles(outputDir, writes, Len(writes))
                            /\ store' = store
                /\ b.pc \in {"list", "delete", "put", "putNormal", "putBlackout", "save"} =>
                        b.totalDuration \in SourceDurations
                /\ store' # store =>
                        a.pc \in {"delete", "put", "putNormal", "putBlackout"}
                /\ a.pc \in {"list", "delete", "put", "putNormal", "putBlackout", "save"} =>
                        \A f \in DOMAIN outputDir' :
                            f \in DOMAIN outputDir /\ outputDir'[f] = outputDir[f]
    ]_vars

\* A create job in its upload loop, its second upload pending: every file of its
\* timeline is in the output directory, written by it, and its first file is in
\* the blob store.
C26_Witness ==
    \E j \in Slots :
        /\ jobs[j].kind = "create" /\ jobs[j].pc = "put" /\ jobs[j].idx = 2
        /\ \A f \in GeneratedNames(jobs[j]) :
                f \in DOMAIN outputDir /\ outputDir[f].by = jobs[j].req
        /\ jobs[j].uniqueSubfolder \o jobs[j].files[1] \in DOMAIN store
        /\ jobs[j].uniqueSubfolder \o jobs[j].files[2] \notin DOMAIN store

\* C29: a modify changes no object of the blob store before its generation has
\* returned: its steps up to there, failing or not, leave the store as it is.  It
\* removes objects only in its DeleteObjects step, which comes after the listing
\* that follows the generation and before its first upload.
C29_ModifyDeletesAfterGeneration ==
    [][\A j \in Slots :
        LET a == jobs[j]
            b == jobs'[j]
        IN  (a.kind = "modify" /\ Running(j) /\ b # a) =>
                /\ a.pc \in {"find", "get", "list"} => store' = store
                /\ (b.pc = "error" /\ b.at \in {"find", "cast", "notFound", "get", "generate"})
                        => store' = store
                /\ (\E k \in DOMAIN store : k \notin DOMAIN store') =>
                        /\ a.pc = "delete"
                        /\ a.totalDuration \in SourceDurations
                        /\ a.fileUrlMapping = <<>>
                        /\ DOMAIN store' = DOMAIN store \ a.listed
                /\ b.pc = "delete" =>
                        /\ a.pc = "list"
                        /\ b.listed = ListObjects(store, b.uniqueSubfolder)
    ]_vars

\* A modify of the earlier job has failed in generation after writing a file: the
\* objects under the prefix are those the earlier create published.
C29_Witness ==
    \E j \in Slots :
        /\ jobs[j].kind = "modify" /\ jobs[j].pc = "error" /\ jobs[j].at = "generate"
        /\ jobs[j].folder = CreateSubfolder(EarlierFolder, EarlierContentId)
        /\ \E f \in DOMAIN outputDir : outputDir[f].by = jobs[j].req
        /\ store = Published(0, CreateSubfolder(EarlierFolder, EarlierContentId),
                             EarlierBlackoutLocks, 2)

\* The key a URL of the blob store names: what follows the first '/' after the
\* host; the empty key when there is none.
KeyOfUrl(url) ==
    LET slashes == {i \in 1..Len(url) : url[i] = "/"}
    IN  IF slashes = {} THEN <<>>
        ELSE SubSeq(url, (CHOOSE i \in slashes : \A k \in slashes : i <= k) + 1, Len(url))

IsUrl(line) == line # <<>> /\ line[1] = "https://"

\* C30: whenever no request is in progress, the redacted locator of every Lock
\* document names a playlist object that is in the blob store, and every chunk URL
\* in that playlist names an object that is in the blob store.
C30_RecordLocatorResolves ==
    (\A j \in Slots : Free(j)) =>
        \A i \in 1..Len(locks) :
            LET key == KeyOfUrl(locks[i].LockJsonObject.lockedcontenturl)
            IN  /\ key \in DOMAIN store
                /\ endsWithM3u8(key)
                /\ \A n \in 1..Len(store[key].lines) :
                        IsUrl(store[key].lines[n]) =>
                            KeyOfUrl(store[key].lines[n]) \in DOMAIN store

----------------------------------------------------------------------------
(* The handlers started with a foreign file in the output directory: the   *)
(* directory is shared and no handler empties it before it generates.      *)

PublishInit ==
    /\ jobs = [j \in Slots |-> IdleJob]
    /\ outputDir = (PosterName :> [by |-> 0, name |-> PosterName, lines |-> <<>>])
    /\ tmpDir = {}
    /\ nextReq = 1
    /\ s3Location \in BOOLEAN
    /\ \E earlier \in BOOLEAN, totalDuration \in SourceDurations :
        LET prefix == CreateSubfolder(EarlierFolder, EarlierContentId)
        IN  /\ store = IF earlier
                       THEN Published(0, prefix, EarlierBlackoutLocks, totalDuration)
                       ELSE <<>>
            /\ locks = IF earlier
                       THEN << NewLock(1, 0, EarlierContentId,
                                       UrlOf(prefix \o BlackoutPlaylistName),
                                       EarlierBlackoutLocks) >>
                       ELSE <<>>
    /\ PlanOff /\ RwOff

SpecPublish == PublishInit /\ [][JobNext]_vars

\* C28: the publish of a job takes the listing of the output directory and uploads
\* its files one by one, each under the key prefix + file name with the content
\* read from the file and the content type of its kind (playlist type for .m3u8,
\* chunk type for .ts, binary for any other name); the map it builds has one entry
\* for each file uploaded so far, the URL returned for its key, and when the loop
\* ends one entry for each file of the listing.
C28_PublishUploadsEveryFile ==
    [][\A j \in Slots :
        LET a == jobs[j]
            b == jobs'[j]
        IN  (Running(j) /\ b # a) =>
                /\ (b.pc = "put" /\ a.pc # "put") =>
                        /\ b.files = Listing(outputDir')
                        /\ b.idx = 1 /\ b.fileUrlMapping = <<>>
                        /\ b.buf = outputDir'[b.files[1]]
                /\ (a.pc = "put" /\ ~(b.pc = "error" /\ b.at = "put"
                                       /\ b.req = a.req /\ store' = store)) =>
                        LET file == a.files[a.idx]
                            key == a.uniqueSubfolder \o file
                            type == IF file[Len(file)] = ".m3u8"
                                    THEN "application/vnd.apple.mpegurl"
                                    ELSE IF file[Len(file)] = ".ts" THEN "video/MP2T"
                                    ELSE "application/octet-stream"
                        IN  /\ key \in DOMAIN store'
                            /\ store'[key] = [by |-> a.buf.by, name |-> a.buf.name,
                                              lines |-> a.buf.lines, contentType |-> type]
                            /\ \A k \in DOMAIN store' \ {key} :
                                    k \in DOMAIN store /\ store'[k] = store[k]
                            /\ b.pc = "put" =>
                                    /\ b.files = a.files /\ b.idx = a.idx + 1
                                    /\ DOMAIN b.fileUrlMapping =
                                            {a.files[i] : i \in 1..a.idx}
                                    /\ b.fileUrlMapping[file] = UrlOf(key)
                                    /\ \A f \in DOMAIN a.fileUrlMapping :
                                            b.fileUrlMapping[f] = a.fileUrlMapping[f]
                            /\ b.pc = "putNormal" =>
                                    /\ a.idx = Len(a.files)
                                    /\ DOMAIN b.fileUrlMapping =
                                            {a.files[i] : i \in 1..Len(a.files)}
                                    /\ \A f \in DOMAIN b.fileUrlMapping :
                                            b.fileUrlMapping[f] = UrlOf(a.uniqueSubfolder \o f)
    ]_vars

\* A publish has returned its map: it has an entry for the foreign file, for a
\* chunk and for a raw playlist, and the three objects are in the store under the
\* prefix of the job with the binary, the chunk and the playlist content type.
C28_Witness ==
    \E j \in Slots :
        LET job == jobs[j]
        IN  /\ job.pc = "putNormal"
            /\ {PosterName, SegmentName(0), NormalPlaylistName} \subseteq DOMAIN job.fileUrlMapping
            /\ \A f \in DOMAIN job.fileUrlMapping : job.uniqueSubfolder \o f \in DOMAIN store
            /\ store[job.uniqueSubfolder \o PosterName].contentType = BinaryMimeType
            /\ store[job.uniqueSubfolder \o SegmentName(0)].contentType = ChunkMimeType
            /\ store[job.uniqueSubfolder \o NormalPlaylistName].contentType = PlaylistMimeType

----------------------------------------------------------------------------
(* Shape of the planned timeline (SpecPlan).                               *)

\* C33: for D > 0 and pairwise-disjoint intervals inside [0, D], every segment of
\* the timeline that is not a blackout is strictly longer than zero, and no two
\* consecutive segments are both non-blackout: adjacent intervals, an interval that
\* starts at 0 and an interval that ends at D get no zero-length filler.
C33_NoEmptyFiller ==
    (Planned /\ ValidIntervals) =>
        LET segs == planOut.allSegments
        IN  /\ \A i \in 1..Len(segs) :
                ~segs[i].isBlackout => segs[i].end - segs[i].start > 0
            /\ \A i \in 2..Len(segs) :
                segs[i - 1].isBlackout \/ segs[i].isBlackout

\* Two adjacent intervals, given latest first, that together cover the whole source:
\* the timeline is the two blackout segments and nothing else.
C33_Witness ==
    /\ Planned /\ ValidIntervals
    /\ Len(Intervals) = 2
    /\ Intervals[2].start = 0
    /\ Intervals[2].end = Intervals[1].start
    /\ Intervals[1].end = planIn.totalDuration
    /\ Len(planOut.allSegments) = 2
    /\ planOut.allSegments[1].isBlackout /\ planOut.allSegments[2].isBlackout

\* C34: for D > 0 and every interval list, valid or not, the timeline has at least
\* one segment, so the maximum behind the TARGETDURATION header of both playlists is
\* taken over at least one length and is a number.
C34_TimelineNeverEmpty ==
    /\ Planned => Len(planOut.allSegments) >= 1
    /\ planPc = "built" =>
        \A playlist \in {planOut.normal, planOut.blackout} :
            playlist[3] # <<"#EXT-X-TARGETDURATION:", "-Infinity">>

\* A single reversed interval that ends at the end of the source, built: the
\* timeline is a filler and that one blackout segment, of negative length.
C34_Witness ==
    /\ planPc = "built"
    /\ ~ValidIntervals
    /\ Len(Intervals) = 1
    /\ Intervals[1].start > Intervals[1].end
    /\ Intervals[1].end = planIn.totalDuration
    /\ Len(planOut.allSegments) = 2
    /\ planOut.allSegments[2].isBlackout
    /\ planOut.allSegments[2].end - planOut.allSegments[2].start < 0

----------------------------------------------------------------------------
(* The two copies of the redacted locator in a Lock document (Spec).       *)

\* C35: in every reachable state, each Lock document's top-level LockedContentUrl
\* equals its LockJsonObject.lockedcontenturl, also after a successful modify.
C35_LocatorCopiesEqual ==
    \A i \in 1..Len(locks) :
        locks[i].LockedContentUrl = locks[i].LockJsonObject.lockedcontenturl

----------------------------------------------------------------------------
(* The handlers started on a store that holds two jobs whose prefixes      *)
(* begin alike.                                                            *)

\* The second job published before the run starts: awsDestinationFolder and
\* contentId of its create-AES request.  v + c10 gives v/c10/, which shares the
\* characters v/c1 with the first job's v/c1/; v/c1 + c2 gives v/c1/c2/, which
\* starts with the whole of v/c1/.
OtherJobs ==
    { [folder |-> <<"v">>, contentId |-> <<"c", "1", "0">>],
      [folder |-> <<"v", "/", "c", "1">>, contentId |-> <<"c", "2">>] }

\* The request number of the second job's create-AES.
OtherReq == MaxRequests + 1

\* folder of a modify request: the first job's prefix, with and without the
\* closing '/'.
PrefixModifyFolders == { <<"v", "/", "c", "1", "/">>, <<"v", "/", "c", "1">> }

PrefixInit ==
    /\ jobs = [j \in Slots |-> IdleJob]
    /\ outputDir = <<>>
    /\ tmpDir = {}
    /\ nextReq = 1
    /\ s3Location \in BOOLEAN
    /\ \E other \in OtherJobs, totalDuration \in SourceDurations :
        LET prefix == CreateSubfolder(EarlierFolder, EarlierContentId)
            otherPrefix == CreateSubfolder(other.folder, other.contentId)
        IN  /\ store = Published(0, prefix, EarlierBlackoutLocks, totalDuration)
                        @@ Published(OtherReq, otherPrefix, EarlierBlackoutLocks, totalDuration)
            /\ locks = << NewLock(1, 0, EarlierContentId,
                                  UrlOf(prefix \o BlackoutPlaylistName),
                                  EarlierBlackoutLocks),
                          NewLock(2, OtherReq, other.contentId,
                                  UrlOf(otherPrefix \o BlackoutPlaylistName),
                                  EarlierBlackoutLocks) >>
    /\ PlanOff /\ RwOff

\* POST /modify-AES for one of the two jobs with such a folder; Lock.findOne is
\* awaited.
StartModifyPrefix(j) ==
    /\ Takes(j) /\ nextReq <= MaxRequests
    /\ \E lockId \in {locks[i]._id : i \in 1..Len(locks)},
          folder \in PrefixModifyFolders, newBlackoutLocks \in JobIntervalLists :
        jobs' = [jobs EXCEPT ![j] =
            [IdleJob EXCEPT !.pc = "find", !.kind = "modify", !.req = nextReq,
                            !.lockId = lockId, !.folder = folder,
                            !.blackoutLocks = newBlackoutLocks]]
    /\ nextReq' = nextReq + 1
    /\ UNCHANGED <<outputDir, tmpDir, store, locks, s3Location, planVars, rwVars>>

\* The modify and delete handlers; no further job is created during the run.
PrefixNext ==
    \E j \in Slots :
        \/ StartModifyPrefix(j)
        \/ FindDone(j)
        \/ GetFails(j)
        \/ GenerateFails(j)
        \/ Generated(j)
        \/ ListDone(j)
        \/ DeleteDone(j)
        \/ PutDone(j)
        \/ PutNormalDone(j)
        \/ PutBlackoutDone(j)
        \/ SaveDone(j)
        \/ StartDelete(j)
        \/ DeleteFindDone(j)
        \/ DeleteListDone(j)
        \/ DeleteObjectsDone(j)

SpecPrefix == PrefixInit /\ [][PrefixNext]_vars

\* The prefix create-AES published a Lock document's job under: the key of its
\* LockedContentUrl without the playlist name.
PrefixOfLock(doc) ==
    LET key == KeyOfUrl(doc.LockedContentUrl)
    IN  SubSeq(key, 1, Len(key) - Len(BlackoutPlaylistName))

\* The Lock documents whose job an object belongs to: those with the longest
\* prefix that the key starts with.
OwnersOf(key) ==
    LET under == {i \in 1..Len(locks) : startsWith(key, PrefixOfLock(locks[i]))}
    IN  {i \in under : \A k \in under : Len(PrefixOfLock(locks[k])) <= Len(PrefixOfLock(locks[i]))}

\* C32: the deleteAll step of a modify and of a delete removes no object that was
\* published under the prefix of a job other than the one the request addresses,
\* also when one of the two prefixes is a leading part of the other.
C32_DeleteAllSparesOtherJobs ==
    [][\A j \in Slots :
        (jobs[j].pc \in {"delete", "deleteFolder"} /\ jobs'[j] # jobs[j]) =>
            \A key \in DOMAIN store \ DOMAIN store' :
                OwnersOf(key) = {} \/ jobs[j].lockAt \in OwnersOf(key)]_vars

----------------------------------------------------------------------------
(* Requests served one after the other (SpecFetch).                        *)

\* No two requests have overlapped so far: a request is taken by the first free
\* slot, so the second slot is used only while the first is busy.
SequentialSoFar == jobs[2] = IdleJob

\* C31: in a run in which no two requests overlap, a create or modify that follows
\* a failed request or a download uploads only files it generated itself: every
\* file of the listing it uploads is one of the names it generated, and what it
\* reads for upload was written by itself.
C31_SequentialJobPublishesOwnFiles ==
    (SequentialSoFar /\ jobs[1].kind \in {"create", "modify"} /\ jobs[1].pc = "put") =>
        /\ \A i \in 1..Len(jobs[1].files) : jobs[1].files[i] \in GeneratedNames(jobs[1])
        /\ jobs[1].buf.by = jobs[1].req

====
